---- MODULE Spec2Model ----
(***************************************************************************)
(* Reminder sweep of the LINE interview bot.                               *)
(*                                                                         *)
(* The store is the `interviews` table; the clock is counted in minutes    *)
(* since midnight of day 0 in the Asia/Taipei zone (no DST), so that       *)
(* moment's fractional diff in hours is diffMinutes / 60 and the window    *)
(* bounds 23.5 h, 24.5 h, 2.5 h, 3.5 h are whole numbers of minutes.       *)
(*                                                                         *)
(* Under Spec and SpecApi a request to the trigger endpoint is one action:  *)
(* the key gate, the whole of processReminders and the response.  Under    *)
(* SpecConc the same code runs with one step per await (the candidate      *)
(* query, each sendReminderMessage, each markReminderSent), so that two    *)
(* invocations interleave.  SpecSweeps runs the sweep of app.js beside     *)
(* sendDueReminders of the reminder service, which works on the            *)
(* `reminders` table.                                                      *)
(***************************************************************************)
EXTENDS Integers, Sequences, FiniteSets, TLC

\* ---------------------------------------------------------------- bounds
MaxId == 2          \* ids handed out by the BIGSERIAL key
MaxReminders == 2   \* rows of the reminders table
MaxCalls == 3       \* calls of markReminderSent made one after the other
MaxPushes == 2      \* pushes of one reminder that the history counts
CronStep == 30      \* minutes between two instants the cron may fire at
CronEnd == 1710     \* last instant of a cron run

\* ------------------------------------------------------- program constants
MinutesPerDay == 1440
Lo24 == 1410        \* 23.5 h
Hi24 == 1470        \* 24.5 h
Lo3 == 150          \* 2.5 h
Hi3 == 210          \* 3.5 h
PreMark24 == 180    \* diffHours < 3
PreMark3 == 60      \* diffHours < 1

Instants == {0, 30, 90, 1290, 1470}   \* instants the clock is read at
RTimes == {30, 90}              \* reminder_time, in minutes
Dates == {0, 1}                 \* interview_date, as a day number
Times == {60, 240}              \* interview_time, as minute of the day
Users == {"U1"}
Keys == {"", "k"}
Procs == {1, 2}
Buckets == {"24h", "3h"}

VARIABLES
  now,                  \* wall clock, minutes
  BISHOP_LINE_USER_ID,  \* "" when not configured
  CRON_API_KEY,         \* "" when not configured
  interviews,           \* id -> row of the interviews table
  nextId,               \* next value of the BIGSERIAL key
  pc,                   \* per invocation: position in the handler
  allInterviews,        \* per invocation: the fetched rows and the fetch instant
  interviews24h,        \* per invocation: 24h worklist
  interviews3h,         \* per invocation: 3h worklist
  totalSent,            \* per invocation
  errors,               \* per invocation: error entries
  result,               \* per invocation: value returned by processReminders
  response,             \* per invocation: the HTTP response
  fetched,              \* per invocation: "no", "ok" or "error"
  log,                  \* per invocation: what happened to each pair
  late,                 \* per invocation: worklist pairs whose flag was
                        \* already set in the store at the fetch
  reminders,            \* id -> row of the reminders table
  dueRun,               \* what the last sendDueReminders left behind
  pushed,               \* history: pair -> pushes LINE accepted under the cron
  lastSweep,            \* history: instant of the cron's last request
  API_KEY,              \* key of POST /send-reminders, "" when not configured
  AUTHORIZED_USERS,     \* the user ids listed in the environment
  replies,              \* messages the last request sent, in order
  lastRequest,          \* the last request to a route: route, key, HTTP status
  hits                  \* the counters of the rate limiters of the webhook

\* what an invocation leaves behind; forgotten at the next event
obs == <<allInterviews, interviews24h, interviews3h, totalSent, errors,
         result, response, fetched, log, late>>

vars == <<now, BISHOP_LINE_USER_ID, CRON_API_KEY, interviews, nextId, pc, obs,
          reminders, dueRun, pushed, lastSweep, API_KEY, AUTHORIZED_USERS,
          replies, lastRequest, hits>>

\* what only the cron of SpecCron writes
hist == <<pushed, lastSweep>>

\* what only the routes and the command handlers use
web == <<API_KEY, AUTHORIZED_USERS, replies, lastRequest, hits>>

\* ---------------------------------------------------------------- helpers
RECURSIVE SeqOf(_, _)
\* the ids of S in ascending order, as rows of table t
SeqOf(S, t) ==
  IF S = {} THEN <<>>
  ELSE LET m == CHOOSE x \in S : \A y \in S : x <= y
       IN <<t[m]>> \o SeqOf(S \ {m}, t)

\* JavaScript truthiness of a flag column
Truthy(v) == v \in {"true", "ts"}

Flag(r, b) == IF b = "24h" THEN r.reminder_24h_sent ELSE r.reminder_3h_sent

\* moment.tz(`${date} ${time}`).diff(now, 'hours', true), in minutes
diffMinutes(r, t) == (r.interview_date * MinutesPerDay + r.interview_time) - t

\* now.format('YYYY-MM-DD'), as a day number
Today(t) == t \div MinutesPerDay


\* ------------------------------------------------ InterviewManager (app.js)
\* a filter that asks for both flags false and a date after today
storeFilterStrict(r, t) ==
  /\ (r.reminder_24h_sent = "false" /\ r.reminder_3h_sent = "false")
  /\ r.interview_date > Today(t)

\* the PostgREST filter of the candidate query
storeFilter(r, t) ==
  /\ (r.reminder_24h_sent = "false" \/ r.reminder_3h_sent = "false")
  /\ r.interview_date >= Today(t)

\* rows returned by the candidate query
candidates(tbl, t) == SeqOf({i \in DOMAIN tbl : storeFilter(tbl[i], t)}, tbl)

\* the 24h window without its upper end
inWindow24Open(d) == d >= Lo24 /\ d < Hi24

inWindow24(d) == d >= Lo24 /\ d <= Hi24

\* a 3h check at the nominal instant only
inWindow3Exact(d) == d = (Lo3 + Hi3) \div 2

inWindow3(d) == d >= Lo3 /\ d <= Hi3

\* a selection that does not read the flag
needs24hAnyFlag(r, t) == inWindow24(diffMinutes(r, t))

needs24h(r, t) == ~Truthy(r.reminder_24h_sent) /\ inWindow24(diffMinutes(r, t))

needs3h(r, t) == ~Truthy(r.reminder_3h_sent) /\ inWindow3(diffMinutes(r, t))

\* data of a successful getInterviewsNeedingReminders
getInterviewsNeedingReminders(rows, t) ==
  [interviews24h |-> SelectSeq(rows, LAMBDA r : needs24h(r, t)),
   interviews3h |-> SelectSeq(rows, LAMBDA r : needs3h(r, t))]

\* the value processReminders returns when the candidate query failed
\* a failed query answered like an empty sweep
fetchFailureAsEmpty == [success |-> TRUE, totalSent |-> 0]

fetchFailure == [success |-> FALSE, error |-> "fetch"]

\* an update that writes both flag columns of the row
markBothFlags(tbl, id, b, v) ==
  IF id \notin DOMAIN tbl THEN tbl
  ELSE [tbl EXCEPT ![id].reminder_24h_sent = v, ![id].reminder_3h_sent = v]

\* an update that flips the flag of the bucket
markToggle(tbl, id, b, v) ==
  IF id \notin DOMAIN tbl THEN tbl
  ELSE IF b = "24h"
  THEN [tbl EXCEPT ![id].reminder_24h_sent = IF @ = v THEN "false" ELSE v]
  ELSE [tbl EXCEPT ![id].reminder_3h_sent = IF @ = v THEN "false" ELSE v]

\* the table after the update of markReminderSent(id, b) wrote value v; an
\* update that matches no row is not an error
markReminderSent(tbl, id, b, v) ==
  IF id \notin DOMAIN tbl THEN tbl
  ELSE IF b = "24h" THEN [tbl EXCEPT ![id].reminder_24h_sent = v]
  ELSE IF b = "3h" THEN [tbl EXCEPT ![id].reminder_3h_sent = v]
  ELSE tbl

\* the row addInterview inserts: the flag columns take the schema default
newInterview(id, u, d, tm) ==
  [id |-> id, user_id |-> u, interviewee_name |-> "n", interview_date |-> d,
   interview_time |-> tm, reminder_24h_sent |-> "false",
   reminder_3h_sent |-> "false"]

\* ------------------------------------------------- ReminderManager (app.js)
\* a recipient taken from the row first
targetOwnerFirst(r) ==
  IF r.user_id # "" THEN r.user_id ELSE BISHOP_LINE_USER_ID

targetUserId(r) ==
  IF BISHOP_LINE_USER_ID # "" THEN BISHOP_LINE_USER_ID ELSE r.user_id

\* a send without the check of the recipient
sendUnchecked(r, accepted) ==
  [success |-> TRUE, push |-> IF accepted THEN "ok" ELSE "rej",
   to |-> targetUserId(r), error |-> ""]

\* sendReminderMessage of app.js: a rejected push is caught by the .catch on
\* the promise and only logged, so the function still returns success
sendReminderMessage(r, accepted) ==
  IF targetUserId(r) = ""
  THEN [success |-> FALSE, push |-> "none", to |-> "",
        error |-> "No bishop user ID configured"]
  ELSE [success |-> TRUE, push |-> IF accepted THEN "ok" ELSE "rej",
        to |-> targetUserId(r), error |-> ""]

\* a serverless send with the .catch of app.js on its push
apiSendSwallowing(r, accepted) == sendReminderMessage(r, accepted)

\* sendReminderMessage of api/trigger-reminders.js: a rejected push throws
\* into the catch of the function
apiSendReminderMessage(r, accepted) ==
  IF targetUserId(r) = ""
  THEN [success |-> FALSE, push |-> "none", to |-> "",
        error |-> "No bishop user ID configured"]
  ELSE IF accepted
  THEN [success |-> TRUE, push |-> "ok", to |-> targetUserId(r), error |-> ""]
  ELSE [success |-> FALSE, push |-> "rej", to |-> targetUserId(r), error |-> "push"]

\* the value markReminderSent writes: true in app.js, a timestamp in
\* api/trigger-reminders.js
markValue(impl) == IF impl = "app" THEN "true" ELSE "ts"

\* a worklist that walks the 24h rows twice
pairsTwice(l24, l3) ==
  [k \in 1..(2 * Len(l24) + Len(l3)) |->
     IF k <= 2 * Len(l24)
     THEN [row |-> l24[((k - 1) % Len(l24)) + 1], bucket |-> "24h"]
     ELSE [row |-> l3[k - 2 * Len(l24)], bucket |-> "3h"]]

\* the worklist in the order of the two loops: 24h first, then 3h
pairsOf(l24, l3) ==
  [k \in 1..(Len(l24) + Len(l3)) |->
     IF k <= Len(l24) THEN [row |-> l24[k], bucket |-> "24h"]
     ELSE [row |-> l3[k - Len(l24)], bucket |-> "3h"]]

\* One loop iteration up to the await of markReminderSent.  st is the state
\* of the loops: the table, totalSent, errors and the log of the pairs.
afterSend(st, pr, reminderResult) ==
  LET entry == [id |-> pr.row.id, bucket |-> pr.bucket,
                push |-> reminderResult.push, to |-> reminderResult.to,
                mark |-> "none",
                counted |-> IF reminderResult.success THEN "pending" ELSE "error"]
      err == [id |-> pr.row.id, bucket |-> pr.bucket, error |-> reminderResult.error]
  IN [st EXCEPT !.log = Append(@, entry),
                !.errors = IF reminderResult.success THEN @ ELSE Append(@, err)]

\* an iteration that counts the pair only when the flag update succeeded
afterMarkChecked(st, ok, v) ==
  LET k == Len(st.log)
      e == st.log[k]
  IN [st EXCEPT !.tbl = IF ok THEN markReminderSent(@, e.id, e.bucket, v) ELSE @,
                !.totalSent = IF ok THEN @ + 1 ELSE @,
                !.log = [@ EXCEPT ![k].mark = IF ok THEN "ok" ELSE "fail",
                                  ![k].counted = "sent"]]

\* The rest of the iteration after a successful sendReminderMessage:
\* markReminderSent, whose result the loop does not read, then totalSent++
afterMark(st, ok, v) ==
  LET k == Len(st.log)
      e == st.log[k]
  IN [st EXCEPT !.tbl = IF ok THEN markReminderSent(@, e.id, e.bucket, v) ELSE @,
                !.totalSent = @ + 1,
                !.log = [@ EXCEPT ![k].mark = IF ok THEN "ok" ELSE "fail",
                                  ![k].counted = "sent"]]

sendOf(impl, r, accepted) ==
  IF impl = "app" THEN sendReminderMessage(r, accepted)
  ELSE apiSendReminderMessage(r, accepted)

RECURSIVE loopsAbort(_, _, _, _, _, _)
\* loops that end at the first pair LINE or the store fails
loopsAbort(impl, st, pairs, k, rej, mf) ==
  IF k > Len(pairs) THEN st
  ELSE LET pr == pairs[k]
           key == <<pr.row.id, pr.bucket>>
           reminderResult == sendOf(impl, pr.row, key \notin rej)
           s1 == afterSend(st, pr, reminderResult)
           s2 == IF reminderResult.success
                 THEN afterMark(s1, key \notin mf, markValue(impl)) ELSE s1
       IN IF key \in rej \cup mf THEN s2
          ELSE loopsAbort(impl, s2, pairs, k + 1, rej, mf)

RECURSIVE loops(_, _, _, _, _, _)
\* the two loops of processReminders from pair k on; LINE rejects the pushes
\* of the pairs in rej and the store fails the flag updates of those in mf
loops(impl, st, pairs, k, rej, mf) ==
  IF k > Len(pairs) THEN st
  ELSE LET pr == pairs[k]
           key == <<pr.row.id, pr.bucket>>
           reminderResult == sendOf(impl, pr.row, key \notin rej)
           s1 == afterSend(st, pr, reminderResult)
           s2 == IF reminderResult.success
                 THEN afterMark(s1, key \notin mf, markValue(impl)) ELSE s1
       IN loops(impl, s2, pairs, k + 1, rej, mf)

\* the value processReminders returns after the loops; an empty errors list
\* is returned as undefined, the field is absent
sweepResult(n, errs) ==
  IF Len(errs) > 0 THEN [success |-> TRUE, totalSent |-> n, errors |-> errs]
  ELSE [success |-> TRUE, totalSent |-> n]

\* an answer that is 200 only when something was sent
respondStrict(res) ==
  [status |-> IF res.success /\ res.totalSent > 0 THEN 200 ELSE 500,
   success |-> res.success]

\* the trigger handler's answer to a processReminders result
respond(res) == [status |-> IF res.success THEN 200 ELSE 500, success |-> res.success]

\* a gate that lets a request without a key through
unauthorizedIfGiven(key) == CRON_API_KEY # "" /\ key # "" /\ key # CRON_API_KEY

\* the key gate of the trigger handlers
unauthorized(key) == CRON_API_KEY # "" /\ key # CRON_API_KEY

\* ------------------------------------------------------------ bookkeeping
Ids(rows) == {rows[k].id : k \in 1..Len(rows)}

Worklist(data) ==
  {<<i, "24h">> : i \in Ids(data.interviews24h)}
    \cup {<<i, "3h">> : i \in Ids(data.interviews3h)}

SentPairs(tbl) ==
  {<<i, b>> \in (DOMAIN tbl) \X Buckets : Truthy(Flag(tbl[i], b))}

Entries(lg) == {lg[k] : k \in 1..Len(lg)}

NoFetch == [now |-> 0, rows |-> <<>>]
NoResult == [pending |-> TRUE]
NoResponse == [status |-> 0, success |-> FALSE]

\* a variable of the invocations, forgotten where the invocation is over
Forget(f, none) == [p \in Procs |-> IF pc[p] = "idle" THEN none ELSE f[p]]

ForgetAll ==
  /\ allInterviews' = Forget(allInterviews, NoFetch)
  /\ interviews24h' = Forget(interviews24h, <<>>)
  /\ interviews3h' = Forget(interviews3h, <<>>)
  /\ totalSent' = Forget(totalSent, 0)
  /\ errors' = Forget(errors, <<>>)
  /\ result' = Forget(result, NoResult)
  /\ response' = Forget(response, NoResponse)
  /\ fetched' = Forget(fetched, "no")
  /\ log' = Forget(log, <<>>)
  /\ late' = Forget(late, {})

NoRun == [state |-> "none", due |-> <<>>, log |-> <<>>]

NoHist ==
  /\ pushed = [pr \in (1..MaxId) \X Buckets |-> 0]
  /\ lastSweep = 0

\* no request to a route since the last event
NoRequest == [route |-> "none", method |-> "", key |-> "", status |-> 0]

\* the addresses requests come from, and the keys of the per-user limiter
IPs == {"ip1", "ip2"}

\* no request counted in the current windows of the limiters
NoHits == [line |-> [ip \in IPs |-> 0],
           user |-> [u \in {"U1", "U9"} |-> 0],
           burst |-> [ip \in IPs |-> 0]]

NoWeb ==
  /\ API_KEY = "k"
  /\ AUTHORIZED_USERS = {"U1"}
  /\ replies = <<>>
  /\ lastRequest = NoRequest
  /\ hits = NoHits

\* ------------------------------------------------------------------- Init
InitObs ==
  /\ pc = [p \in Procs |-> "idle"]
  /\ allInterviews = [p \in Procs |-> NoFetch]
  /\ interviews24h = [p \in Procs |-> <<>>]
  /\ interviews3h = [p \in Procs |-> <<>>]
  /\ totalSent = [p \in Procs |-> 0]
  /\ errors = [p \in Procs |-> <<>>]
  /\ result = [p \in Procs |-> NoResult]
  /\ response = [p \in Procs |-> NoResponse]
  /\ fetched = [p \in Procs |-> "no"]
  /\ log = [p \in Procs |-> <<>>]
  /\ late = [p \in Procs |-> {}]

Init ==
  /\ now = 0
  /\ BISHOP_LINE_USER_ID = "Ubishop"
  /\ CRON_API_KEY = "k"
  /\ interviews = [i \in {} |-> i]
  /\ nextId = 1
  /\ InitObs
  /\ reminders = [i \in {} |-> i]
  /\ dueRun = NoRun
  /\ NoHist
  /\ NoWeb

\* ------------------------------------------------------------ environment
\* the clock reaches a later instant
Tick(t) ==
  /\ t > now
  /\ now' = t
  /\ ForgetAll
  /\ dueRun' = NoRun
  /\ UNCHANGED <<BISHOP_LINE_USER_ID, CRON_API_KEY, interviews, nextId, pc, reminders,
                 hist, web>>

\* ------------------------------------------------------------ CRUD (app.js)
\* addInterview: insert, then pre-mark the buckets that can no longer fire;
\* the result of each markReminderSent is ignored.  A failed insert changes
\* nothing.
addInterview(u, d, tm, ok24, ok3) ==
  /\ nextId <= MaxId
  /\ LET id == nextId
         row == newInterview(id, u, d, tm)
         diff == diffMinutes(row, now)
         t0 == interviews @@ (id :> row)
         t1 == IF diff < PreMark24 /\ ok24
               THEN markReminderSent(t0, id, "24h", "true") ELSE t0
         t2 == IF diff < PreMark3 /\ ok3
               THEN markReminderSent(t1, id, "3h", "true") ELSE t1
     IN interviews' = t2
  /\ nextId' = nextId + 1
  /\ ForgetAll
  /\ UNCHANGED <<now, BISHOP_LINE_USER_ID, CRON_API_KEY, pc,
                 reminders, dueRun, hist, web>>

\* words of the update command: field names of fieldMap (written here name,
\* date, time, reason for the Chinese words), a column name typed as it is,
\* and a property every JavaScript object inherits
Words == {"name", "date", "time", "reminder_24h_sent", "constructor"}

\* the names the payload column interviewee_name takes; the reason column is
\* not carried
Names == {"n", "m"}

\* a lookup that passes an unknown word through as the column
fieldMapRaw(word) ==
  CASE word = "name" -> "interviewee_name"
    [] word = "date" -> "interview_date"
    [] word = "time" -> "interview_time"
    [] OTHER -> word

\* fieldMap[word]: undefined for an unknown word, Object's constructor for
\* the inherited property (as a column: its text)
fieldMap(word) ==
  CASE word = "name" -> "interviewee_name"
    [] word = "date" -> "interview_date"
    [] word = "time" -> "interview_time"
    [] word = "reason" -> "reason"
    [] word = "constructor" -> "function Object() { [native code] }"
    [] OTHER -> "undefined"

\* the values a user may type after a word
ValuesOf(word) ==
  CASE word = "date" -> Dates
    [] word = "time" -> Times
    [] word = "name" -> {"n"}
    [] OTHER -> {"false"}

\* the table after InterviewManager.updateInterview(u, id, {field: value}):
\* the update writes whatever column it is given, on the row of that id and
\* user; an unknown column is an error of the store and no row changes
updated(tbl, u, id, field, value) ==
  IF id \notin DOMAIN tbl \/ tbl[id].user_id # u THEN tbl
  ELSE IF field \in DOMAIN tbl[id] THEN [tbl EXCEPT ![id][field] = value]
  ELSE tbl

\* handleUpdateCommand: the word is looked up in fieldMap, an unknown word is
\* answered with an error, otherwise updateInterview writes the one column
updateInterview(u, id, word, value) ==
  /\ LET dbField == fieldMap(word)
     IN interviews' = IF dbField = "undefined" THEN interviews
                      ELSE updated(interviews, u, id, dbField, value)
  /\ ForgetAll
  /\ UNCHANGED <<now, BISHOP_LINE_USER_ID, CRON_API_KEY, nextId, pc,
                 reminders, dueRun, hist, web>>

deleteInterview(u, id) ==
  /\ id \in DOMAIN interviews
  /\ interviews[id].user_id = u
  /\ interviews' = [i \in DOMAIN interviews \ {id} |-> interviews[i]]
  /\ ForgetAll
  /\ UNCHANGED <<now, BISHOP_LINE_USER_ID, CRON_API_KEY, nextId, pc,
                 reminders, dueRun, hist, web>>

Crud ==
  \/ \E u \in Users, d \in Dates, tm \in Times, ok24, ok3 \in BOOLEAN :
       addInterview(u, d, tm, ok24, ok3)
  \/ \E u \in Users, id \in DOMAIN interviews, word \in Words :
       \E v \in ValuesOf(word) : updateInterview(u, id, word, v)
  \/ \E u \in Users, id \in 1..MaxId : deleteInterview(u, id)


\* --------------------------------------- the trigger handler, as one action
\* what invocation p leaves behind
Leave(p, fetch, data, st, res, resp, f, lt) ==
  /\ allInterviews' = [allInterviews EXCEPT ![p] = fetch]
  /\ interviews24h' = [interviews24h EXCEPT ![p] = data.interviews24h]
  /\ interviews3h' = [interviews3h EXCEPT ![p] = data.interviews3h]
  /\ totalSent' = [totalSent EXCEPT ![p] = st.totalSent]
  /\ errors' = [errors EXCEPT ![p] = st.errors]
  /\ log' = [log EXCEPT ![p] = st.log]
  /\ result' = [result EXCEPT ![p] = res]
  /\ response' = [response EXCEPT ![p] = resp]
  /\ fetched' = [fetched EXCEPT ![p] = f]
  /\ late' = [late EXCEPT ![p] = lt]

NoData == [interviews24h |-> <<>>, interviews3h |-> <<>>]

\* loops that start from the count the last invocation ended with
StartCarried(tbl) ==
  [tbl |-> tbl, totalSent |-> totalSent[1], errors |-> <<>>, log |-> <<>>]

\* the locals of processReminders before the loops
Start(tbl) == [tbl |-> tbl, totalSent |-> 0, errors |-> <<>>, log |-> <<>>]

\* app.all('/trigger-reminders') of app.js with processReminders: the key
\* gate, the candidate query (failing or not), the two loops, the response
triggerReminders(p, key, fetchOk, rej, mf) ==
  /\ \A q \in Procs : pc[q] = "idle"
  /\ IF unauthorized(key)
     THEN /\ Leave(p, NoFetch, NoData, Start(interviews), NoResult,
                   [status |-> 401, success |-> FALSE], "no", {})
          /\ interviews' = interviews
     ELSE IF ~fetchOk
     THEN /\ Leave(p, NoFetch, NoData, Start(interviews), fetchFailure,
                   respond(fetchFailure), "error", {})
          /\ interviews' = interviews
     ELSE LET rows == candidates(interviews, now)
              data == getInterviewsNeedingReminders(rows, now)
              pairs == pairsOf(data.interviews24h, data.interviews3h)
              fin == loops("app", Start(interviews), pairs, 1, rej, mf)
              res == sweepResult(fin.totalSent, fin.errors)
          IN /\ Leave(p, [now |-> now, rows |-> rows], data, fin, res, respond(res),
                      "ok", Worklist(data) \cap SentPairs(interviews))
             /\ interviews' = fin.tbl
  /\ dueRun' = NoRun
  /\ UNCHANGED <<now, BISHOP_LINE_USER_ID, CRON_API_KEY, nextId, pc, reminders>>

\* the pairs the sweep of app.js would select now
Due == Worklist(getInterviewsNeedingReminders(candidates(interviews, now), now))

\* a request with any key, the query failing or not, LINE and the store
\* failing for any of the pairs
Trigger ==
  \E key \in Keys, fetchOk \in BOOLEAN, rej \in SUBSET Due, mf \in SUBSET Due :
    /\ (unauthorized(key) \/ ~fetchOk) => (rej = {} /\ mf = {})
    /\ triggerReminders(1, key, fetchOk, rej, mf)
    /\ UNCHANGED <<hist, web>>

\* sweeps run one at a time and each runs to its end
Next ==
  \/ \E t \in Instants : Tick(t)
  \/ Crud
  \/ Trigger

Spec == Init /\ [][Next]_vars


\* ------------------------------------- the same handler, one step per await
\* the key gate; processReminders starts
Request(p, key) ==
  /\ pc[p] = "idle"
  /\ IF unauthorized(key)
     THEN /\ Leave(p, NoFetch, NoData, Start(interviews), NoResult,
                   [status |-> 401, success |-> FALSE], "no", {})
          /\ pc' = pc
     ELSE /\ Leave(p, NoFetch, NoData, Start(interviews), NoResult, NoResponse, "no", {})
          /\ pc' = [pc EXCEPT ![p] = "fetch"]
  /\ UNCHANGED <<now, BISHOP_LINE_USER_ID, CRON_API_KEY, interviews, nextId,
                 reminders, dueRun, hist, web>>

\* the loops are over (or the query failed): processReminders returns and the
\* handler answers
Return(p, st, res) ==
  /\ totalSent' = [totalSent EXCEPT ![p] = st.totalSent]
  /\ errors' = [errors EXCEPT ![p] = st.errors]
  /\ log' = [log EXCEPT ![p] = st.log]
  /\ result' = [result EXCEPT ![p] = res]
  /\ response' = [response EXCEPT ![p] = respond(res)]
  /\ pc' = [pc EXCEPT ![p] = "idle"]

\* the loops go on
Continue(p, st, at) ==
  /\ totalSent' = [totalSent EXCEPT ![p] = st.totalSent]
  /\ errors' = [errors EXCEPT ![p] = st.errors]
  /\ log' = [log EXCEPT ![p] = st.log]
  /\ pc' = [pc EXCEPT ![p] = at]
  /\ UNCHANGED <<result, response>>

\* the candidate query and the window filter
Fetch(p, ok) ==
  /\ pc[p] = "fetch"
  /\ IF ~ok
     THEN /\ fetched' = [fetched EXCEPT ![p] = "error"]
          /\ Return(p, Start(interviews), fetchFailure)
          /\ UNCHANGED <<allInterviews, interviews24h, interviews3h, late>>
     ELSE LET rows == candidates(interviews, now)
              data == getInterviewsNeedingReminders(rows, now)
          IN /\ fetched' = [fetched EXCEPT ![p] = "ok"]
             /\ allInterviews' = [allInterviews EXCEPT ![p] = [now |-> now, rows |-> rows]]
             /\ interviews24h' = [interviews24h EXCEPT ![p] = data.interviews24h]
             /\ interviews3h' = [interviews3h EXCEPT ![p] = data.interviews3h]
             /\ late' = [late EXCEPT ![p] = Worklist(data) \cap SentPairs(interviews)]
             /\ IF Worklist(data) = {}
                THEN Return(p, Start(interviews), sweepResult(0, <<>>))
                ELSE Continue(p, Start(interviews), "send")
  /\ UNCHANGED <<now, BISHOP_LINE_USER_ID, CRON_API_KEY, interviews, nextId,
                 reminders, dueRun, hist, web>>

Loop(p) ==
  [tbl |-> interviews, totalSent |-> totalSent[p], errors |-> errors[p], log |-> log[p]]

Pairs(p) == pairsOf(interviews24h[p], interviews3h[p])

\* sendReminderMessage for the next pair, LINE accepting the push or not
Send(p, accepted) ==
  /\ pc[p] = "send"
  /\ LET pr == Pairs(p)[Len(log[p]) + 1]
         reminderResult == sendOf("app", pr.row, accepted)
         st == afterSend(Loop(p), pr, reminderResult)
     IN IF reminderResult.success THEN Continue(p, st, "mark")
        ELSE IF Len(st.log) = Len(Pairs(p))
        THEN Return(p, st, sweepResult(st.totalSent, st.errors))
        ELSE Continue(p, st, "send")
  /\ UNCHANGED <<now, BISHOP_LINE_USER_ID, CRON_API_KEY, interviews, nextId,
                 allInterviews, interviews24h, interviews3h, fetched, late,
                 reminders, dueRun, hist, web>>

\* markReminderSent for the pair just sent, the store accepting the update or
\* not
Mark(p, ok) ==
  /\ pc[p] = "mark"
  /\ LET st == afterMark(Loop(p), ok, markValue("app"))
     IN /\ interviews' = st.tbl
        /\ IF Len(st.log) = Len(Pairs(p))
           THEN Return(p, st, sweepResult(st.totalSent, st.errors))
           ELSE Continue(p, st, "send")
  /\ UNCHANGED <<now, BISHOP_LINE_USER_ID, CRON_API_KEY, nextId,
                 allInterviews, interviews24h, interviews3h, fetched, late,
                 reminders, dueRun, hist, web>>

\* a store that earlier addInterview calls filled, the interviews still far
Tables ==
  {tbl \in [1..MaxId -> [id : 1..MaxId, user_id : Users,
                         interviewee_name : {"n"}, interview_date : Dates,
                         interview_time : Times, reminder_24h_sent : {"false"},
                         reminder_3h_sent : {"false"}]] :
     \A i \in 1..MaxId : tbl[i].id = i}

InitConc ==
  /\ now = 0
  /\ BISHOP_LINE_USER_ID = "Ubishop"
  /\ CRON_API_KEY = "k"
  /\ interviews \in Tables
  /\ nextId = MaxId + 1
  /\ InitObs
  /\ reminders = [i \in {} |-> i]
  /\ dueRun = NoRun
  /\ NoHist
  /\ NoWeb

\* nothing serialises the requests: invocations interleave at every await
NextConc ==
  \/ \E t \in Instants : Tick(t)
  \/ \E p \in Procs, key \in Keys : Request(p, key)
  \/ \E p \in Procs, ok \in BOOLEAN : Fetch(p, ok)
  \/ \E p \in Procs, accepted \in BOOLEAN : Send(p, accepted)
  \/ \E p \in Procs, ok \in BOOLEAN : Mark(p, ok)

SpecConc == InitConc /\ [][NextConc]_vars


\* ------------------------------------------------ api/trigger-reminders.js
\* The serverless copy of the sweep.  It formats dates with moment() in the
\* zone of the server, taken here to be the zone of the stored dates.
Lo24Api == 1200     \* 20 h
Hi24Api == 1680     \* 28 h

\* the first query: interview_date in [tomorrow, tomorrow + 1 day), flag null
apiQuery24(r, t) ==
  /\ r.interview_date >= Today(t + MinutesPerDay)
  /\ r.interview_date < Today(t + MinutesPerDay) + 1
  /\ r.reminder_24h_sent = "null"

\* the second query: interview_date in [today, tomorrow), where tomorrow is
\* the moment the first query moved on by a day; flag null
apiQuery3(r, t) ==
  /\ r.interview_date >= Today(t)
  /\ r.interview_date < Today(t + MinutesPerDay) + 1
  /\ r.reminder_3h_sent = "null"

apiInWindow24(d) == d >= Lo24Api /\ d <= Hi24Api

\* data of a successful getInterviewsNeedingReminders of the serverless copy
apiGetInterviewsNeedingReminders(tbl, t) ==
  [interviews24h |->
     SelectSeq(SeqOf({i \in DOMAIN tbl : apiQuery24(tbl[i], t)}, tbl),
               LAMBDA r : apiInWindow24(diffMinutes(r, t))),
   interviews3h |->
     SelectSeq(SeqOf({i \in DOMAIN tbl : apiQuery3(tbl[i], t)}, tbl),
               LAMBDA r : inWindow3(diffMinutes(r, t)))]

\* the handler of api/trigger-reminders.js with its processReminders; either
\* of the two queries may fail
apiTriggerReminders(p, key, ok24, ok3, rej, mf) ==
  /\ \A q \in Procs : pc[q] = "idle"
  /\ IF unauthorized(key)
     THEN /\ Leave(p, NoFetch, NoData, Start(interviews), NoResult,
                   [status |-> 401, success |-> FALSE], "no", {})
          /\ interviews' = interviews
     ELSE IF ~(ok24 /\ ok3)
     THEN /\ Leave(p, NoFetch, NoData, Start(interviews), fetchFailure,
                   respond(fetchFailure), "error", {})
          /\ interviews' = interviews
     ELSE LET data == apiGetInterviewsNeedingReminders(interviews, now)
              pairs == pairsOf(data.interviews24h, data.interviews3h)
              fin == loops("api", Start(interviews), pairs, 1, rej, mf)
              res == sweepResult(fin.totalSent, fin.errors)
          IN /\ Leave(p, [now |-> now, rows |-> <<>>], data, fin, res, respond(res),
                      "ok", Worklist(data) \cap SentPairs(interviews))
             /\ interviews' = fin.tbl
  /\ dueRun' = NoRun
  /\ UNCHANGED <<now, BISHOP_LINE_USER_ID, CRON_API_KEY, nextId, pc, reminders>>

\* the pairs the serverless sweep would select now
ApiDue == Worklist(apiGetInterviewsNeedingReminders(interviews, now))

ApiTrigger ==
  \E key \in Keys, ok24, ok3 \in BOOLEAN, rej \in SUBSET ApiDue, mf \in SUBSET ApiDue :
    /\ (unauthorized(key) \/ ~(ok24 /\ ok3)) => (rej = {} /\ mf = {})
    /\ apiTriggerReminders(1, key, ok24, ok3, rej, mf)
    /\ UNCHANGED <<hist, web>>

\* The serverless copy reads flags with `is null`.  The table of schema.sql
\* gives new rows the flag false; a table whose flag columns have no default
\* gives them null.  Both kinds of store are started from.
ApiTables ==
  {[i \in 1..MaxId |-> [tbl[i] EXCEPT !.reminder_24h_sent = f, !.reminder_3h_sent = f]] :
     tbl \in Tables, f \in {"null", "false"}}

InitApi ==
  /\ now = 0
  /\ BISHOP_LINE_USER_ID = "Ubishop"
  /\ CRON_API_KEY = "k"
  /\ interviews \in ApiTables
  /\ nextId = MaxId + 1
  /\ InitObs
  /\ reminders = [i \in {} |-> i]
  /\ dueRun = NoRun
  /\ NoHist
  /\ NoWeb

NextApi ==
  \/ \E t \in Instants : Tick(t)
  \/ ApiTrigger

SpecApi == InitApi /\ [][NextApi]_vars

\* ------------------------------------------- reminderService, the reminders
RECURSIVE byTime(_, _)
\* the rows of S in the order of the query: by reminder_time
byTime(S, tbl) ==
  IF S = {} THEN <<>>
  ELSE LET m == CHOOSE x \in S : \A y \in S :
                  \/ tbl[x].reminder_time < tbl[y].reminder_time
                  \/ (tbl[x].reminder_time = tbl[y].reminder_time /\ x <= y)
       IN <<tbl[m]>> \o byTime(S \ {m}, tbl)

\* a query that does not look at the status
getDueAnyStatus(tbl, t) ==
  byTime({i \in DOMAIN tbl : tbl[i].reminder_time <= t}, tbl)

\* getDueReminders: status pending, reminder_time <= now
getDueReminders(tbl, t) ==
  byTime({i \in DOMAIN tbl : tbl[i].status = "pending" /\ tbl[i].reminder_time <= t}, tbl)

\* an update that writes another status than sent
markAsCancelled(tbl, id) == [tbl EXCEPT ![id].status = "cancelled"]

\* markReminderAsSent: the update of one row
markReminderAsSent(tbl, id) == [tbl EXCEPT ![id].status = "sent"]

\* One iteration of the loop of sendDueReminders: sendReminderMessage throws
\* when LINE rejects the push, markReminderAsSent throws when the update
\* fails, and the catch of the iteration counts either as one error.
dueStep(st, r, accepted, marked) ==
  IF accepted /\ marked
  THEN [st EXCEPT !.tbl = markReminderAsSent(@, r.id),
                  !.successCount = @ + 1,
                  !.log = Append(@, [id |-> r.id, push |-> "ok", mark |-> "ok",
                                     counted |-> "sent"])]
  ELSE [st EXCEPT !.errorCount = @ + 1,
                  !.errors = Append(@, [reminderId |-> r.id, userId |-> r.user_id]),
                  !.log = Append(@, [id |-> r.id,
                                     push |-> IF accepted THEN "ok" ELSE "rej",
                                     mark |-> IF accepted THEN "fail" ELSE "none",
                                     counted |-> "error"])]

RECURSIVE dueLoop(_, _, _, _, _)
\* the loop of sendDueReminders from reminder k on
dueLoop(st, due, k, rej, mf) ==
  IF k > Len(due) THEN st
  ELSE dueLoop(dueStep(st, due[k], due[k].id \notin rej, due[k].id \notin mf),
               due, k + 1, rej, mf)

\* sendDueReminders: a failed query is thrown on to the caller
sendDueReminders(fetchOk, rej, mf) ==
  /\ \A q \in Procs : pc[q] = "idle"
  /\ LET due == getDueReminders(reminders, now)
         st0 == [tbl |-> reminders, successCount |-> 0, errorCount |-> 0,
                 errors |-> <<>>, log |-> <<>>]
         fin == dueLoop(st0, due, 1, rej, mf)
     IN IF ~fetchOk
        THEN /\ dueRun' = [state |-> "thrown", due |-> <<>>, log |-> <<>>]
             /\ reminders' = reminders
        ELSE IF Len(due) = 0
        THEN /\ dueRun' = [state |-> "returned", due |-> due, log |-> <<>>,
                           result |-> [remindersSent |-> 0, success |-> TRUE]]
             /\ reminders' = reminders
        ELSE /\ dueRun' = [state |-> "returned", due |-> due, log |-> fin.log,
                           result |-> [remindersSent |-> fin.successCount,
                                       totalProcessed |-> Len(due),
                                       errors |-> fin.errorCount,
                                       errorDetails |-> fin.errors,
                                       success |-> TRUE]]
             /\ reminders' = fin.tbl
  /\ ForgetAll
  /\ UNCHANGED <<now, BISHOP_LINE_USER_ID, CRON_API_KEY, interviews, nextId, pc>>

DueIds == {i \in DOMAIN reminders :
             reminders[i].status = "pending" /\ reminders[i].reminder_time <= now}

\* a run, the query failing or not, LINE rejecting the reminders of rej and
\* the store failing the updates of those in mf
SendDue ==
  \E fetchOk \in BOOLEAN, rej \in SUBSET DueIds, mf \in SUBSET DueIds :
    /\ rej \cap mf = {}
    /\ ~fetchOk => (rej = {} /\ mf = {})
    /\ sendDueReminders(fetchOk, rej, mf)
    /\ UNCHANGED <<hist, web>>

\* reminders that earlier commands created
ReminderTables ==
  {tbl \in [1..MaxReminders -> [id : 1..MaxReminders, user_id : Users,
                                reminder_time : RTimes, status : {"pending"}]] :
     \A i \in 1..MaxReminders : tbl[i].id = i}

\* both sweeps over stores filled earlier, the interviews by turns at 01:00 of
\* day 1 and at 04:00 of day 0, so that both buckets come due at the instants
\* of RTimes
InitSweeps ==
  /\ now = 0
  /\ BISHOP_LINE_USER_ID = "Ubishop"
  /\ CRON_API_KEY = "k"
  /\ interviews = [i \in 1..MaxId |->
                     IF i % 2 = 1 THEN newInterview(i, "U1", 1, 60)
                     ELSE newInterview(i, "U1", 0, 240)]
  /\ nextId = MaxId + 1
  /\ InitObs
  /\ reminders \in ReminderTables
  /\ dueRun = NoRun
  /\ NoHist
  /\ NoWeb

NextSweeps ==
  \/ \E t \in RTimes : Tick(t)
  \/ Trigger
  \/ SendDue

SpecSweeps == InitSweeps /\ [][NextSweeps]_vars

\* ================================================================ claims
Target(r) == r.interview_date * MinutesPerDay + r.interview_time

PairOf(e) == <<e.id, e.bucket>>

\* the log entries of a list that count a pair as sent
Counted(lg) == {e \in Entries(lg) : e.counted = "sent"}

\* C1: a pair whose flag is true in the store when a sweep of app.js fetches
\* is not pushed by that sweep, at any instant, inside the window or not.
C1_MarkedNeverPushed ==
  \A p \in Procs : \A e \in Entries(log[p]) :
    e.push # "none" => PairOf(e) \notin late[p]

\* a sweep fetched a row whose 24h flag a mark set to true, the instant still
\* inside the 24h window, and did not select it
C1_Witness ==
  /\ fetched[1] = "ok"
  /\ \E k \in 1..Len(allInterviews[1].rows) :
       LET r == allInterviews[1].rows[k]
           d == Target(r) - allInterviews[1].now
       IN /\ r.reminder_24h_sent = "true"
          /\ d >= 1410 /\ d <= 1470
          /\ r.id \notin Ids(interviews24h[1])
          /\ \A e \in Entries(log[1]) : PairOf(e) # <<r.id, "24h">>

\* C2: in processReminders of app.js a pair whose push LINE rejected is not
\* marked and not counted in totalSent by that sweep.
C2_MarkOnlyAfterAcceptedPush ==
  \A p \in Procs : \A e \in Entries(log[p]) :
    e.push = "rej" => (e.mark = "none" /\ e.counted # "sent")

\* C3: for every row the candidate query of app.js returned, 24h is selected
\* iff the 24h flag is false and 23.5 <= hoursUntil <= 24.5, and 3h is
\* selected iff the 3h flag is false and 2.5 <= hoursUntil <= 3.5.
C3_SelectionIffFlagAndWindow ==
  \A p \in Procs : fetched[p] = "ok" =>
    \A k \in 1..Len(allInterviews[p].rows) :
      LET r == allInterviews[p].rows[k]
          m == Target(r) - allInterviews[p].now
      IN /\ (r.id \in Ids(interviews24h[p])) <=>
              (r.reminder_24h_sent = "false" /\ 2 * m >= 47 * 60 /\ 2 * m <= 49 * 60)
         /\ (r.id \in Ids(interviews3h[p])) <=>
              (r.reminder_3h_sent = "false" /\ 2 * m >= 5 * 60 /\ 2 * m <= 7 * 60)

\* one sweep selected a row exactly 24.5 h ahead and left out a fetched row
\* whose 3h flag is false and whose 3h window has passed
C3_Witness ==
  /\ fetched[1] = "ok"
  /\ \E k, j \in 1..Len(allInterviews[1].rows) :
       LET r == allInterviews[1].rows[k]
           q == allInterviews[1].rows[j]
       IN /\ 2 * (Target(r) - allInterviews[1].now) = 49 * 60
          /\ r.id \in Ids(interviews24h[1])
          /\ q.reminder_3h_sent = "false"
          /\ Target(q) - allInterviews[1].now < 150
          /\ q.id \notin Ids(interviews3h[1])

\* C4: a run of processReminders of app.js that directly follows another,
\* nothing created, updated or deleted in between, pushes no pair the first
\* run dispatched and counted in totalSent.
C4_ResweepSendsNothing ==
  [][fetched'[1] = "ok" =>
       \A e \in Counted(log[1]) : \A f \in Entries(log'[1]) :
         PairOf(f) = PairOf(e) => f.push = "none"]_vars

\* C5: of two processReminders invocations in flight at once no pair is
\* accepted by LINE for both and no pair is marked by both.
C5_ConcurrentSweepsDisjoint ==
  \A p, q \in Procs :
    (p # q /\ pc[p] # "idle" /\ pc[q] # "idle") =>
      \A e \in Entries(log[p]) : \A f \in Entries(log[q]) :
        PairOf(e) = PairOf(f) =>
          /\ ~(e.push = "ok" /\ f.push = "ok")
          /\ ~(e.mark = "ok" /\ f.mark = "ok")

\* the worklist of invocation p, as ids and buckets in the order of the loops
Attempted(p) ==
  [k \in 1..(Len(interviews24h[p]) + Len(interviews3h[p])) |->
     IF k <= Len(interviews24h[p]) THEN <<interviews24h[p][k].id, "24h">>
     ELSE <<interviews3h[p][k - Len(interviews24h[p])].id, "3h">>]

\* C6: a sweep (processReminders of app.js, sendDueReminders) in which a pair
\* failed still attempts every due pair exactly once, reports an outcome for
\* each and returns a result.
C6_FailureIsolation ==
  /\ \A p \in Procs : fetched[p] = "ok" =>
       /\ Len(log[p]) = Len(Attempted(p))
       /\ \A k \in 1..Len(log[p]) :
            /\ PairOf(log[p][k]) = Attempted(p)[k]
            /\ log[p][k].push # "none"
            /\ log[p][k].counted \in {"sent", "error"}
       /\ result[p].success
       /\ result[p].totalSent + Len(errors[p]) = Len(log[p])
  /\ dueRun.log # <<>> =>
       /\ dueRun.state = "returned"
       /\ Len(dueRun.log) = Len(dueRun.due)
       /\ \A k \in 1..Len(dueRun.log) :
            /\ dueRun.log[k].id = dueRun.due[k].id
            /\ dueRun.log[k].push # "none"
            /\ dueRun.log[k].counted \in {"sent", "error"}
       /\ dueRun.result.success
       /\ dueRun.result.totalProcessed = Len(dueRun.due)
       /\ dueRun.result.remindersSent + dueRun.result.errors = Len(dueRun.due)
       /\ Len(dueRun.result.errorDetails) = dueRun.result.errors

\* a sendDueReminders run in which a reminder failed and the one after it
\* was sent, over a store in which a sweep of app.js has marked the second of
\* two pairs due together while the flag update of the first failed
C6_Witness ==
  /\ Target(interviews[1]) - now = 1470 /\ interviews[1].reminder_24h_sent = "false"
  /\ Target(interviews[2]) - now = 210 /\ interviews[2].reminder_3h_sent = "true"
  /\ \E k \in 1..Len(dueRun.log) :
       /\ k < Len(dueRun.log)
       /\ dueRun.log[k].counted = "error"
       /\ dueRun.log[k + 1].counted = "sent"

\* C7: a pair whose push succeeded and whose flag update failed gets an error
\* entry of its own in the sweep result and is not counted as sent.
C7_MarkFailureReported ==
  \A p \in Procs : \A e \in Entries(log[p]) :
    e.mark = "fail" =>
      /\ e.counted = "error"
      /\ \E k \in 1..Len(errors[p]) :
           errors[p][k].id = e.id /\ errors[p][k].bucket = e.bucket

C9_FetchFailureAborts ==
  [][\A p \in Procs : fetched'[p] = "error" =>
       /\ log'[p] = <<>>
       /\ interviews' = interviews
       /\ result'[p].success = FALSE
       /\ DOMAIN result'[p] = {"success", "error"}
       /\ response'[p].status = 500
       /\ response'[p].success = FALSE]_vars

\* the query failed while pairs were due
C9_Witness ==
  /\ fetched[1] = "error"
  /\ Due # {}
  /\ response[1].status = 500

\* C10: the handler of app.js answers 200 with success true whenever the
\* fetch succeeded, and a 5xx status only when the fetch failed.
C10_StatusFollowsFetch ==
  \A p \in Procs :
    /\ fetched[p] = "ok" => (response[p].status = 200 /\ response[p].success)
    /\ response[p].status >= 500 => fetched[p] = "error"

\* a sweep with a rejected push and a failed flag update was answered 200
C10_Witness ==
  /\ fetched[1] = "ok"
  /\ \E e, f \in Entries(log[1]) : e.push = "rej" /\ f.mark = "fail"
  /\ response[1].status = 200


\* ------------------------------------------------- the sweep under a cron
\* the longest pause between two requests of the cron: the window width
MaxInterval == Hi24 - Lo24

\* interviews created at instant 0, each more than 24.5 h ahead
InitCron ==
  /\ now = 0
  /\ BISHOP_LINE_USER_ID = "Ubishop"
  /\ CRON_API_KEY = "k"
  /\ interviews \in {tbl \in Tables : \A i \in DOMAIN tbl : diffMinutes(tbl[i], 0) > Hi24}
  /\ nextId = MaxId + 1
  /\ InitObs
  /\ reminders = [i \in {} |-> i]
  /\ dueRun = NoRun
  /\ NoHist
  /\ NoWeb

\* time passes, never more than MaxInterval without a request
CronTick ==
  /\ now + CronStep <= CronEnd
  /\ now + CronStep - lastSweep <= MaxInterval
  /\ Tick(now + CronStep)

\* a request of the cron with its key; the query, LINE and the store work
CronSweep ==
  /\ triggerReminders(1, CRON_API_KEY, TRUE, {}, {})
  /\ UNCHANGED web
  /\ lastSweep' = now
  /\ pushed' = [pr \in DOMAIN pushed |->
                  pushed[pr] + Cardinality({k \in 1..Len(log'[1]) :
                                 PairOf(log'[1][k]) = pr /\ log'[1][k].push = "ok"})]

NextCron ==
  \/ CronTick
  \/ CronSweep

SpecCron == InitCron /\ [][NextCron]_vars

\* C11: under a cron that never pauses longer than the window width, with
\* query, push and flag update succeeding, every interview created more than
\* 24.5 h ahead gets exactly one 24h and one 3h reminder, each pushed inside
\* its window, and has both flags true once its window is over.
C11_EveryBucketOnceInWindow ==
  /\ \A i \in DOMAIN interviews :
       /\ pushed[<<i, "24h">>] <= 1 /\ pushed[<<i, "3h">>] <= 1
       /\ 2 * (Target(interviews[i]) - now) < 47 * 60 =>
            pushed[<<i, "24h">>] = 1 /\ interviews[i].reminder_24h_sent = "true"
       /\ 2 * (Target(interviews[i]) - now) < 5 * 60 =>
            pushed[<<i, "3h">>] = 1 /\ interviews[i].reminder_3h_sent = "true"
  /\ \A e \in Entries(log[1]) :
       LET m == Target(interviews[e.id]) - now
       IN IF e.bucket = "24h" THEN 2 * m >= 47 * 60 /\ 2 * m <= 49 * 60
          ELSE 2 * m >= 5 * 60 /\ 2 * m <= 7 * 60

\* an interview's target instant is reached with one reminder of each bucket
\* pushed and both flags true
C11_Witness ==
  \E i \in DOMAIN interviews :
    /\ now >= Target(interviews[i])
    /\ pushed[<<i, "24h">>] = 1 /\ pushed[<<i, "3h">>] = 1
    /\ interviews[i].reminder_24h_sent = "true"
    /\ interviews[i].reminder_3h_sent = "true"


\* the row a step of addInterview has just inserted, and the minutes from the
\* creation instant to its target
Created == interviews'[nextId]

\* the pairs a sweep run right after the step would select
DueAfter == Worklist(getInterviewsNeedingReminders(candidates(interviews', now), now))

\* C12: after a successful addInterview less than 3 h before the target the
\* 24h flag is true, less than 1 h before it the 3h flag is true as well,
\* and a sweep run right after the creation selects no bucket of the row.
C12_LateAdditionPremarked ==
  [][nextId' = nextId + 1 =>
       LET m == Target(Created) - now
       IN /\ m < 3 * 60 => Created.reminder_24h_sent = "true"
          /\ m < 60 => Created.reminder_3h_sent = "true"
          /\ m < 3 * 60 => \A b \in Buckets : <<Created.id, b>> \notin DueAfter]_vars

\* C13: after addInterview the flag of every bucket whose window has already
\* passed at creation (less than 23.5 h ahead for 24h, less than 2.5 h ahead
\* for 3h) is true.
C13_PassedWindowPremarked ==
  [][nextId' = nextId + 1 =>
       LET m == Target(Created) - now
       IN /\ 2 * m < 47 * 60 => Created.reminder_24h_sent = "true"
          /\ 2 * m < 5 * 60 => Created.reminder_3h_sent = "true"]_vars


\* ------------------------------------------- the sweep and its recipients
\* user_id of the rows the sweep is handed; "" stands for no owner
Owners == {"", "U1", "U2"}

\* a store whose pairs are due at the instants of RTimes, the bishop
\* configured or not
InitRecipients ==
  /\ now = 30
  /\ BISHOP_LINE_USER_ID \in {"", "Ubishop"}
  /\ CRON_API_KEY = "k"
  /\ \E own \in [1..MaxId -> Owners] :
       interviews = [i \in 1..MaxId |->
                       IF i % 2 = 1 THEN newInterview(i, own[i], 1, 60)
                       ELSE newInterview(i, own[i], 0, 240)]
  /\ nextId = MaxId + 1
  /\ InitObs
  /\ reminders = [i \in {} |-> i]
  /\ dueRun = NoRun
  /\ NoHist
  /\ NoWeb

NextRecipients ==
  \/ \E t \in RTimes : Tick(t)
  \/ Trigger

SpecRecipients == InitRecipients /\ [][NextRecipients]_vars

\* C14: a reminder is pushed to BISHOP_LINE_USER_ID when that is configured,
\* whatever the row's user_id, and to the row's user_id when it is not; each
\* reminder goes to one recipient.
C14_RecipientResolution ==
  \A p \in Procs : \A k \in 1..Len(log[p]) :
    LET e == log[p][k]
    IN e.push # "none" =>
         /\ BISHOP_LINE_USER_ID # "" => e.to = BISHOP_LINE_USER_ID
         /\ BISHOP_LINE_USER_ID = "" => e.to = interviews[e.id].user_id
         /\ e.to # ""
         /\ \A j \in 1..Len(log[p]) : PairOf(log[p][j]) = PairOf(e) => j = k

\* two rows of different owners were reminded: with the bishop configured
\* both went to the bishop
C14_Witness ==
  /\ BISHOP_LINE_USER_ID = "Ubishop"
  /\ \E e, f \in Entries(log[1]) :
       /\ interviews[e.id].user_id = "U1" /\ interviews[f.id].user_id = "U2"
       /\ e.push = "ok" /\ f.push = "ok"
       /\ e.to = "Ubishop" /\ f.to = "Ubishop"


\* C15: with neither BISHOP_LINE_USER_ID nor the row's user_id available
\* sendReminderMessage pushes nothing and fails; processReminders records an
\* error for the pair, leaves its flag false, goes on with the other pairs
\* and returns success true.
C15_NoRecipientIsPerPairError ==
  \A p \in Procs : fetched[p] = "ok" =>
    /\ Len(log[p]) = Len(Attempted(p))
    /\ result[p].success /\ response[p].status = 200
    /\ \A e \in Entries(log[p]) :
         IF BISHOP_LINE_USER_ID = "" /\ interviews[e.id].user_id = ""
         THEN /\ e.push = "none" /\ e.mark = "none" /\ e.counted = "error"
              /\ \E k \in 1..Len(errors[p]) :
                   errors[p][k].id = e.id /\ errors[p][k].bucket = e.bucket
              /\ "errors" \in DOMAIN result[p]
              /\ Flag(interviews[e.id], e.bucket) = "false"
         ELSE e.push # "none"

\* a pair without recipient failed and the pair after it was sent and marked
C15_Witness ==
  /\ fetched[1] = "ok"
  /\ \E k \in 1..Len(log[1]) :
       /\ k < Len(log[1])
       /\ log[1][k].push = "none"
       /\ log[1][k + 1].push = "ok" /\ log[1][k + 1].mark = "ok"
  /\ totalSent[1] = 1


\* C16: over add, update command, sweep and markReminderSent a flag of an
\* existing interview that is true never becomes false again, and the update
\* command writes no flag.
C16_FlagsMonotonic ==
  [][\A i \in DOMAIN interviews \cap DOMAIN interviews' : \A b \in Buckets :
       Flag(interviews[i], b) = "true" => Flag(interviews'[i], b) = "true"]_vars

\* a row with a true flag has had its date changed by the update command and
\* the flag is still true
C16_Witness ==
  \E i \in DOMAIN interviews :
    /\ interviews[i].reminder_24h_sent = "true"
    /\ interviews[i].reminder_3h_sent = "false"
    /\ Target(interviews[i]) - now > 49 * 30

\* ------------------------------------------------- what a sweep may change
\* Both sweeps over one table: the handler of app.js and the serverless copy.
\* The rows carry different names; the flag columns are all false (the
\* schema default) or all null (a table without the default).
FrameTables ==
  {[i \in 1..MaxId |->
      [tbl[i] EXCEPT !.interviewee_name = IF i % 2 = 1 THEN "n" ELSE "m"]] :
     tbl \in ApiTables}

InitFrame ==
  /\ now = 0
  /\ BISHOP_LINE_USER_ID = "Ubishop"
  /\ CRON_API_KEY = "k"
  /\ interviews \in FrameTables
  /\ nextId = MaxId + 1
  /\ InitObs
  /\ reminders = [i \in {} |-> i]
  /\ dueRun = NoRun
  /\ NoHist
  /\ NoWeb

NextFrame ==
  \/ \E t \in Instants : Tick(t)
  \/ Trigger
  \/ ApiTrigger

SpecFrame == InitFrame /\ [][NextFrame]_vars

\* the column markReminderSent writes for a bucket
Column(b) == IF b = "24h" THEN "reminder_24h_sent" ELSE "reminder_3h_sent"

markOutcome(storeOk) ==
  IF storeOk THEN [success |-> TRUE] ELSE [success |-> FALSE, error |-> "update"]

\* One call of markReminderSent(id, b) of app.js; the store accepts the
\* update or fails it.  The call and what it returned are kept in log[1]
\* and result[1].
markCall(id, b, storeOk) ==
  /\ Len(log[1]) < MaxCalls
  /\ interviews' = IF storeOk THEN markReminderSent(interviews, id, b, "true")
                   ELSE interviews
  /\ result' = [result EXCEPT ![1] = markOutcome(storeOk)]
  /\ log' = [log EXCEPT ![1] =
               Append(@, [id |-> id, bucket |-> b, push |-> "none", to |-> "",
                          mark |-> IF storeOk THEN "ok" ELSE "fail",
                          counted |-> "none"])]
  /\ UNCHANGED <<now, BISHOP_LINE_USER_ID, CRON_API_KEY, nextId, pc, allInterviews,
                 interviews24h, interviews3h, totalSent, errors, response,
                 fetched, late, reminders, dueRun, hist, web>>

\* rows 1..MaxId as addInterview left them; the id nextId names no row
InitMark ==
  /\ now = 0
  /\ BISHOP_LINE_USER_ID = "Ubishop"
  /\ CRON_API_KEY = "k"
  /\ interviews = [i \in 1..MaxId |->
                     IF i % 2 = 1 THEN newInterview(i, "U1", 1, 60)
                     ELSE newInterview(i, "U1", 0, 240)]
  /\ nextId = MaxId + 1
  /\ InitObs
  /\ reminders = [i \in {} |-> i]
  /\ dueRun = NoRun
  /\ NoHist
  /\ NoWeb

NextMark ==
  \E id \in 1..nextId, b \in Buckets, storeOk \in BOOLEAN : markCall(id, b, storeOk)

SpecMark == InitMark /\ [][NextMark]_vars

\* the last call kept in a log
LastCall(lg) == lg[Len(lg)]

\* C18: when markReminderSent(id, B) of app.js is called again right after
\* a call for the same id and bucket, and the store accepts both updates,
\* both calls return success, the second call leaves the table as the first
\* one left it, and the flag of B is true on the row (if the row exists).
C18_MarkTwiceIdempotent ==
  [][(/\ Len(log[1]) >= 1
      /\ Len(log'[1]) = Len(log[1]) + 1
      /\ PairOf(LastCall(log'[1])) = PairOf(LastCall(log[1]))
      /\ LastCall(log[1]).mark = "ok"
      /\ LastCall(log'[1]).mark = "ok")
     => /\ result[1].success
        /\ result'[1].success
        /\ interviews' = interviews
        /\ \A i \in DOMAIN interviews' :
             i = LastCall(log'[1]).id =>
               Flag(interviews'[i], LastCall(log'[1]).bucket) = "true"]_vars

\* the same pair was marked twice in a row, both updates accepted; the flag
\* is true and the other flag of the row is still false
C18_Witness ==
  /\ Len(log[1]) >= 2
  /\ LET e == log[1][Len(log[1])]
         d == log[1][Len(log[1]) - 1]
     IN /\ PairOf(e) = PairOf(d)
        /\ e.mark = "ok" /\ d.mark = "ok"
        /\ e.id \in DOMAIN interviews
        /\ Flag(interviews[e.id], e.bucket) = "true"
        /\ \E b \in Buckets : Flag(interviews[e.id], b) = "false"

\* ----------------------------------------------- the candidate query's reach
\* C19: in a sweep of app.js whose candidate query succeeded, every row of
\* the table that has a bucket with a false flag and the time to the
\* interview inside that bucket's window is among the rows the query
\* returned, whatever the flags of the other bucket and the instant.
C19_FilterKeepsDuePairs ==
  [][fetched'[1] = "ok" =>
       \A i \in DOMAIN interviews :
         ((\/ /\ ~Truthy(interviews[i].reminder_24h_sent)
              /\ inWindow24(diffMinutes(interviews[i], now))
           \/ /\ ~Truthy(interviews[i].reminder_3h_sent)
              /\ inWindow3(diffMinutes(interviews[i], now)))
          => interviews[i] \in Entries(allInterviews'[1].rows))]_vars

\* the query returned a row of today whose 24h flag was true and whose 3h
\* reminder was due, beside a row it left out
C19_Witness ==
  /\ fetched[1] = "ok"
  /\ \E r \in Entries(allInterviews[1].rows) :
       /\ r.interview_date = Today(allInterviews[1].now)
       /\ r.reminder_24h_sent = "true"
       /\ r.reminder_3h_sent = "false"
       /\ inWindow3(diffMinutes(r, allInterviews[1].now))
  /\ \E i \in DOMAIN interviews :
       \A r \in Entries(allInterviews[1].rows) : r.id # i

\* C20: in a sweep of the serverless copy whose two queries succeeded, every
\* row with the schema's default flags whose 24h flag is unsent and whose
\* time to the interview is in the copy's 24h window [20 h, 28 h] is in
\* interviews24h, and every row whose 3h flag is unsent and whose time to the
\* interview is in [2.5 h, 3.5 h] is in interviews3h.
C20_ApiPrefiltersKeepAccepted ==
  [][fetched'[1] = "ok" =>
       \A i \in DOMAIN interviews :
         /\ (/\ interviews[i].reminder_24h_sent = "false"
             /\ apiInWindow24(diffMinutes(interviews[i], now)))
            => interviews[i] \in Entries(interviews24h'[1])
         /\ (/\ ~Truthy(interviews[i].reminder_3h_sent)
             /\ inWindow3(diffMinutes(interviews[i], now)))
            => interviews[i] \in Entries(interviews3h'[1])]_vars

\* ------------------------------------------- the two copies side by side
\* C21: a sweep of the serverless copy whose queries succeeded selects a row
\* for the 24h reminder only inside [23.5 h, 24.5 h] and for the 3h reminder
\* only inside [2.5 h, 3.5 h], and its due pairs are those the sweep of
\* app.js selects on the same table at the same instant.
C21_ApiSelectsLikeApp ==
  [][fetched'[1] = "ok" =>
       /\ \A r \in Entries(interviews24h'[1]) : inWindow24(diffMinutes(r, now))
       /\ \A r \in Entries(interviews3h'[1]) : inWindow3(diffMinutes(r, now))
       /\ Worklist([interviews24h |-> interviews24h'[1],
                    interviews3h |-> interviews3h'[1]]) = Due]_vars

\* ------------------------------------------------------- the key gates
\* keys a request carries: none, the configured one, another one
AuthKeys == {"", "k", "x"}

\* app.all takes every method; the cron services use these two
Methods == {"GET", "POST"}

\* checkApiKey of routes/reminders.js
checkApiKey(key) == ~(API_KEY # "" /\ key # API_KEY)

\* the clock reaches a later instant; what the last request left is forgotten
AuthTick(t) ==
  /\ t > now
  /\ now' = t
  /\ ForgetAll
  /\ dueRun' = NoRun
  /\ lastRequest' = NoRequest
  /\ UNCHANGED <<BISHOP_LINE_USER_ID, CRON_API_KEY, interviews, nextId, pc, reminders,
                 hist, API_KEY, AUTHORIZED_USERS, hits, replies>>

\* a request to /trigger-reminders of app.js with any key
AuthTrigger ==
  \E method \in Methods, key \in AuthKeys, fetchOk \in BOOLEAN, rej \in SUBSET Due :
    /\ (unauthorized(key) \/ ~fetchOk) => rej = {}
    /\ triggerReminders(1, key, fetchOk, rej, {})
    /\ lastRequest' = [route |-> "trigger-reminders", method |-> method,
                       key |-> key, status |-> response'[1].status]
    /\ UNCHANGED <<hist, API_KEY, AUTHORIZED_USERS, hits, replies>>

\* a request to the serverless /api/trigger-reminders with any key
AuthApiTrigger ==
  \E key \in AuthKeys, ok24, ok3 \in BOOLEAN :
    /\ apiTriggerReminders(1, key, ok24, ok3, {}, {})
    /\ lastRequest' = [route |-> "api/trigger-reminders", method |-> "POST",
                       key |-> key, status |-> response'[1].status]
    /\ UNCHANGED <<hist, API_KEY, AUTHORIZED_USERS, hits, replies>>

\* POST /send-reminders of routes/reminders.js: checkApiKey, then
\* sendDueReminders; 200 when it returns, 500 when it throws
postSendReminders(key, fetchOk, rej, mf) ==
  /\ IF checkApiKey(key)
     THEN /\ sendDueReminders(fetchOk, rej, mf)
          /\ lastRequest' = [route |-> "send-reminders", method |-> "POST",
                             key |-> key, status |-> IF fetchOk THEN 200 ELSE 500]
     ELSE /\ \A q \in Procs : pc[q] = "idle"
          /\ ForgetAll
          /\ dueRun' = NoRun
          /\ lastRequest' = [route |-> "send-reminders", method |-> "POST",
                             key |-> key, status |-> 401]
          /\ UNCHANGED <<now, BISHOP_LINE_USER_ID, CRON_API_KEY, interviews, nextId,
                         pc, reminders>>
  /\ UNCHANGED <<hist, API_KEY, AUTHORIZED_USERS, hits, replies>>

AuthSendDue ==
  \E key \in AuthKeys, fetchOk \in BOOLEAN, rej \in SUBSET DueIds :
    /\ (~checkApiKey(key) \/ ~fetchOk) => rej = {}
    /\ postSendReminders(key, fetchOk, rej, {})

\* the three routes with the keys configured or not
InitAuth ==
  /\ now = 0
  /\ BISHOP_LINE_USER_ID = "Ubishop"
  /\ CRON_API_KEY \in {"", "k"}
  /\ interviews = [i \in 1..MaxId |->
                     IF i % 2 = 1 THEN newInterview(i, "U1", 1, 60)
                     ELSE newInterview(i, "U1", 0, 240)]
  /\ nextId = MaxId + 1
  /\ InitObs
  /\ reminders \in ReminderTables
  /\ dueRun = NoRun
  /\ NoHist
  /\ API_KEY \in {"", "k"}
  /\ AUTHORIZED_USERS = {"U1"}
  /\ replies = <<>>
  /\ lastRequest = NoRequest
  /\ hits = NoHits

NextAuth ==
  \/ \E t \in RTimes : AuthTick(t)
  \/ AuthTrigger
  \/ AuthApiTrigger
  \/ AuthSendDue

SpecAuth == InitAuth /\ [][NextAuth]_vars

C23_OneSweepPerRequest ==
  [][(lastRequest'.route = "trigger-reminders" /\ lastRequest'.status # 401) =>
       /\ result'[1] # NoResult
       /\ response'[1] = [status |-> IF result'[1].success THEN 200 ELSE 500,
                          success |-> result'[1].success]
       /\ fetched'[1] = "ok" =>
            /\ result'[1].success
            /\ Len(log'[1]) = Cardinality(Due)
            /\ {PairOf(e) : e \in Entries(log'[1])} = Due
       /\ fetched'[1] # "ok" => (log'[1] = <<>> /\ ~result'[1].success)]_vars

\* a GET request without a key, no key being configured, swept two due
\* pairs and returned the summary
C23_Witness ==
  /\ lastRequest.route = "trigger-reminders"
  /\ lastRequest.method = "GET"
  /\ lastRequest.key = ""
  /\ lastRequest.status = 200
  /\ Len(log[1]) >= 2
  /\ result[1].success /\ result[1].totalSent >= 2

\* ------------------------------------------------------- the summaries
\* Both sweeps with failures of every kind: interviews without a recipient
\* (no bishop configured, some rows without an owner), LINE rejecting
\* pushes, the store failing updates.
InitSummary ==
  /\ now = 0
  /\ BISHOP_LINE_USER_ID = ""
  /\ CRON_API_KEY = "k"
  /\ \E own \in [1..MaxId -> Owners] :
       interviews = [i \in 1..MaxId |->
                       IF i % 2 = 1 THEN newInterview(i, own[i], 1, 60)
                       ELSE newInterview(i, own[i], 0, 240)]
  /\ nextId = MaxId + 1
  /\ InitObs
  /\ reminders = [i \in 1..MaxReminders |->
                    [id |-> i, user_id |-> "U1",
                     reminder_time |-> IF i % 2 = 1 THEN 30 ELSE 90,
                     status |-> "pending"]]
  /\ dueRun = NoRun
  /\ NoHist
  /\ NoWeb

NextSummary ==
  \/ \E t \in RTimes : Tick(t)
  \/ Trigger
  \/ SendDue

SpecSummary == InitSummary /\ [][NextSummary]_vars

\* the number of error entries of a summary; the field is absent when there
\* were none
ErrorCount(res) == IF "errors" \in DOMAIN res THEN Len(res.errors) ELSE 0

\* C24: the summary of a sweep that fetched counts every due pair once.
\* processReminders: totalSent + number of error entries = |interviews24h| +
\* |interviews3h|.  sendDueReminders: with nothing due remindersSent is 0;
\* otherwise remindersSent + errors = totalProcessed = number of due
\* reminders, and errorDetails has one entry for each failed reminder.
C24_SummaryCountsEachPairOnce ==
  /\ \A p \in Procs :
       fetched[p] = "ok" =>
         result[p].totalSent + ErrorCount(result[p]) =
           Len(interviews24h[p]) + Len(interviews3h[p])
  /\ dueRun.state = "returned" =>
       IF Len(dueRun.due) = 0 THEN dueRun.result.remindersSent = 0
       ELSE /\ dueRun.result.remindersSent + dueRun.result.errors =
                 dueRun.result.totalProcessed
            /\ dueRun.result.totalProcessed = Len(dueRun.due)
            /\ Len(dueRun.result.errorDetails) = dueRun.result.errors
            /\ {d.reminderId : d \in Entries(dueRun.result.errorDetails)} =
                 {e.id : e \in {x \in Entries(dueRun.log) : x.counted = "error"}}

\* a sweep of app.js over two due pairs, one counted as sent and one as an
\* error
C24_Witness ==
  /\ fetched[1] = "ok"
  /\ Len(interviews24h[1]) + Len(interviews3h[1]) = 2
  /\ result[1].totalSent = 1
  /\ ErrorCount(result[1]) = 1

\* ------------------------------------------------ one sweep, step by step
\* One invocation of the handler of app.js at a time, interleaved with the
\* clock; the awaited calls to the store and to LINE each settle, with
\* success or with failure.
InitRun ==
  /\ now = 0
  /\ BISHOP_LINE_USER_ID = "Ubishop"
  /\ CRON_API_KEY = "k"
  /\ interviews = [i \in 1..MaxId |->
                     IF i % 2 = 1 THEN newInterview(i, "U1", 1, 60)
                     ELSE newInterview(i, "U1", 0, 240)]
  /\ nextId = MaxId + 1
  /\ InitObs
  /\ reminders = [i \in {} |-> i]
  /\ dueRun = NoRun
  /\ NoHist
  /\ NoWeb

\* the steps of the invocation after the request was accepted
RunStep ==
  \/ \E ok \in BOOLEAN : Fetch(1, ok)
  \/ \E accepted \in BOOLEAN : Send(1, accepted)
  \/ \E ok \in BOOLEAN : Mark(1, ok)

NextRun ==
  \/ \E t \in RTimes : Tick(t)
  \/ \E key \in Keys : Request(1, key)
  \/ RunStep

\* every awaited call settles and the event loop resumes the handler
SpecRun == InitRun /\ [][NextRun]_vars /\ WF_vars(RunStep)

\* C25: an invocation that passed the key gate returns: whatever pushes are
\* rejected and whatever flag updates fail, it reaches its end with a result,
\* having walked every pair of its worklist once; and it starts from empty
\* locals, so that nothing but the table passes from one invocation to the
\* next.
C25_SweepTerminates ==
  /\ (pc[1] # "idle") ~>
       (/\ pc[1] = "idle"
        /\ result[1] # NoResult
        /\ fetched[1] = "ok" => Len(log[1]) = Len(Pairs(1)))
  /\ [][(pc[1] = "idle" /\ pc'[1] # "idle") =>
          /\ totalSent'[1] = 0
          /\ errors'[1] = <<>>
          /\ log'[1] = <<>>
          /\ result'[1] = NoResult
          /\ fetched'[1] = "no"
          /\ interviews' = interviews]_vars

\* an invocation returned after two pairs, the flag update of one of them
\* having failed
C25_Witness ==
  /\ pc[1] = "idle"
  /\ result[1] # NoResult
  /\ fetched[1] = "ok"
  /\ Len(log[1]) = 2
  /\ \E e \in Entries(log[1]) : e.mark = "fail"
  /\ \E e \in Entries(log[1]) : e.mark = "ok"

\* ------------------------------------------- sendDueReminders on its own
\* the values of reminders.status
Statuses == {"pending", "sent", "cancelled"}

\* reminders of every status, due at the instants of RTimes
StatusTables ==
  {tbl \in [1..MaxReminders -> [id : 1..MaxReminders, user_id : Users,
                                reminder_time : RTimes, status : Statuses]] :
     \A i \in 1..MaxReminders : tbl[i].id = i}

InitDue ==
  /\ now = 0
  /\ BISHOP_LINE_USER_ID = "Ubishop"
  /\ CRON_API_KEY = "k"
  /\ interviews = [i \in {} |-> i]
  /\ nextId = 1
  /\ InitObs
  /\ reminders \in StatusTables
  /\ dueRun = NoRun
  /\ pushed = [i \in 1..MaxReminders |-> 0]
  /\ lastSweep = 0
  /\ NoWeb

\* a run of sendDueReminders; the history counts, for every reminder, the
\* pushes LINE accepted
DueSweep ==
  \E fetchOk \in BOOLEAN, rej \in SUBSET DueIds, mf \in SUBSET DueIds :
    /\ rej \cap mf = {}
    /\ ~fetchOk => (rej = {} /\ mf = {})
    /\ \A i \in DueIds : pushed[i] < MaxPushes
    /\ sendDueReminders(fetchOk, rej, mf)
    /\ pushed' = [i \in DOMAIN pushed |->
                    pushed[i] + Cardinality({k \in 1..Len(dueRun'.log) :
                                   dueRun'.log[k].id = i /\ dueRun'.log[k].push = "ok"})]
    /\ UNCHANGED <<lastSweep, web>>

NextDue ==
  \/ \E t \in RTimes : Tick(t)
  \/ DueSweep

SpecDue == InitDue /\ [][NextDue]_vars

\* C26: a run of sendDueReminders sends only reminders that were pending
\* with reminder_time <= now when it fetched; a reminder whose push and
\* markReminderAsSent both succeeded has status sent; and a reminder that is
\* sent or cancelled before a run is neither pushed nor changed by it.
C26_OnlyPendingDueSent ==
  [][dueRun'.state = "returned" =>
       /\ \A e \in Entries(dueRun'.log) :
            /\ reminders[e.id].status = "pending"
            /\ reminders[e.id].reminder_time <= now
            /\ (e.push = "ok" /\ e.mark = "ok") => reminders'[e.id].status = "sent"
       /\ \A i \in DOMAIN reminders :
            reminders[i].status \in {"sent", "cancelled"} =>
              (pushed'[i] = pushed[i] /\ reminders'[i] = reminders[i])]_vars

\* a run returned without touching a reminder that an earlier run had pushed
\* once and marked sent, nor a cancelled reminder whose time had come
C26_Witness ==
  /\ dueRun.state = "returned"
  /\ \E i, j \in DOMAIN reminders :
       /\ reminders[i].status = "sent" /\ pushed[i] = 1
       /\ reminders[i].reminder_time <= now
       /\ \A e \in Entries(dueRun.log) : e.id # i
       /\ reminders[j].status = "cancelled" /\ pushed[j] = 0
       /\ reminders[j].reminder_time <= now

\* ------------------------------------------ the webhook of routes/line.js
\* users that write to the bot: U1 is listed in AUTHORIZED_USERS, U9 is not
LineUsers == {"U1", "U9"}

\* Message texts, by what the handlers make of them.  An /add or /update
\* text has a shape: "ok", "short" (too few parts), "baddate" (date not
\* YYYY-MM-DD), "badtime" (time not HH:MM) or "nodate" (the formats match and
\* Date cannot read them); at is the instant an "ok" text names.
Texts ==
  {[cmd |-> "help", shape |-> "ok", id |-> 0, at |-> 0],
   [cmd |-> "list", shape |-> "ok", id |-> 0, at |-> 0],
   [cmd |-> "other", shape |-> "ok", id |-> 0, at |-> 0],
   [cmd |-> "delete", shape |-> "ok", id |-> 1, at |-> 0],
   [cmd |-> "update", shape |-> "ok", id |-> 1, at |-> 90]}
  \cup {[cmd |-> "add", shape |-> "ok", id |-> 0, at |-> t] : t \in {0, 30, 90}}
  \cup {[cmd |-> "add", shape |-> s, id |-> 0, at |-> 90] :
          s \in {"short", "baddate", "badtime", "nodate"}}

\* isAuthorized
isAuthorized(userId) == userId \in AUTHORIZED_USERS

\* parseReminderCommand without the comparison with the present instant
parseAnyInstant(text, t) ==
  IF text.shape # "ok" THEN [ok |-> FALSE, reminderTime |-> 0]
  ELSE [ok |-> TRUE, reminderTime |-> text.at]

\* parseReminderCommand at instant t: null unless the text has three parts,
\* a date and a time of the right format that Date can read, and the time is
\* after t
parseReminderCommand(text, t) ==
  IF text.shape = "short" THEN [ok |-> FALSE, reminderTime |-> 0]
  ELSE IF text.shape = "baddate" THEN [ok |-> FALSE, reminderTime |-> 0]
  ELSE IF text.shape = "badtime" THEN [ok |-> FALSE, reminderTime |-> 0]
  ELSE IF text.at <= t THEN [ok |-> FALSE, reminderTime |-> 0]
  ELSE IF text.shape = "nodate" THEN [ok |-> FALSE, reminderTime |-> 0]
  ELSE [ok |-> TRUE, reminderTime |-> text.at]

\* sendMessage for event k: the push is recorded; it throws when LINE
\* rejects it.  st is the state of the request: the table, the key, the
\* messages, whether an exception is in flight.
say(st, k, to, text, accepted) ==
  [st EXCEPT !.replies = Append(@, [event |-> k, to |-> to, text |-> text,
                                    ok |-> accepted]),
             !.thrown = ~accepted]

\* the catch of a command handler: one more message, then the error is
\* thrown on
handlerCatch(st, k, to, text, accepted) ==
  IF ~st.thrown THEN st
  ELSE [say(st, k, to, text, accepted) EXCEPT !.thrown = TRUE]

\* createReminder: the insert with status pending
createReminder(st, u, reminderTime) ==
  [st EXCEPT !.tbl = [i \in DOMAIN @ \cup {st.nextId} |->
                        IF i = st.nextId
                        THEN [id |-> i, user_id |-> u, reminder_time |-> reminderTime,
                              status |-> "pending"]
                        ELSE @[i]],
             !.nextId = @ + 1]

handleAddReminder(st, k, u, text, accepted, storeOk) ==
  LET reminderData == parseReminderCommand(text, now)
      body == IF ~reminderData.ok THEN say(st, k, u, "invalid-format", accepted)
              ELSE IF ~storeOk THEN [st EXCEPT !.thrown = TRUE]
              ELSE say(createReminder(st, u, reminderData.reminderTime),
                       k, u, "created", accepted)
  IN handlerCatch(body, k, u, "failed-create", accepted)

\* getReminders: the rows of the user, by reminder_time
getReminders(tbl, u) ==
  byTime({i \in DOMAIN tbl : tbl[i].user_id = u}, tbl)

\* the list message carries the rows getReminders returned
handleListReminders(st, k, u, accepted, storeOk) ==
  LET rows == getReminders(st.tbl, u)
      listed == say(st, k, u, "listed", accepted)
      body == IF ~storeOk THEN [st EXCEPT !.thrown = TRUE]
              ELSE IF Len(rows) = 0
              THEN say(st, k, u, "none-found", accepted)
              ELSE [listed EXCEPT !.replies[Len(listed.replies)] =
                                     @ @@ [rows |-> rows]]
  IN handlerCatch(body, k, u, "failed-fetch", accepted)

\* deleteReminder returns false when no row of that id and user was deleted
\* or the store failed
handleDeleteReminder(st, k, u, text, accepted, storeOk) ==
  LET found == storeOk /\ text.id \in DOMAIN st.tbl /\ st.tbl[text.id].user_id = u
      body == IF found
              THEN say([st EXCEPT !.tbl = [i \in DOMAIN @ \ {text.id} |-> @[i]]],
                       k, u, "deleted", accepted)
              ELSE say(st, k, u, "not-found", accepted)
  IN handlerCatch(body, k, u, "failed-delete", accepted)

\* an update that also sets the row back to pending
handleUpdateResetting(st, k, u, text, accepted, storeOk) ==
  LET reminderData == parseReminderCommand(text, now)
      found == text.id \in DOMAIN st.tbl /\ st.tbl[text.id].user_id = u
      body == IF ~reminderData.ok THEN say(st, k, u, "invalid-datetime", accepted)
              ELSE IF ~found THEN say(st, k, u, "not-found", accepted)
              ELSE IF ~storeOk THEN [st EXCEPT !.thrown = TRUE]
              ELSE say([st EXCEPT !.tbl[text.id].reminder_time = reminderData.reminderTime,
                                  !.tbl[text.id].status = "pending"],
                       k, u, "updated", accepted)
  IN handlerCatch(body, k, u, "failed-update", accepted)

\* updateReminder returns null when the row of that id and user is not found
handleUpdateReminder(st, k, u, text, accepted, storeOk) ==
  LET reminderData == parseReminderCommand(text, now)
      found == text.id \in DOMAIN st.tbl /\ st.tbl[text.id].user_id = u
      body == IF ~reminderData.ok THEN say(st, k, u, "invalid-datetime", accepted)
              ELSE IF ~found THEN say(st, k, u, "not-found", accepted)
              ELSE IF ~storeOk THEN [st EXCEPT !.thrown = TRUE]
              ELSE say([st EXCEPT !.tbl[text.id].reminder_time = reminderData.reminderTime],
                       k, u, "updated", accepted)
  IN handlerCatch(body, k, u, "failed-update", accepted)

\* one turn of the loop over the events of a request
handleEvent(st, k, ev, accepted, storeOk) ==
  IF ev.type # "text" THEN st
  ELSE IF ~isAuthorized(ev.userId)
  THEN say(st, k, ev.userId, "not-authorized", accepted)
  ELSE LET u == ev.userId
           cmd == ev.text.cmd
           done == IF cmd = "help" THEN say(st, k, u, "help", accepted)
                   ELSE IF cmd = "add"
                   THEN handleAddReminder(st, k, u, ev.text, accepted, storeOk)
                   ELSE IF cmd = "list"
                   THEN handleListReminders(st, k, u, accepted, storeOk)
                   ELSE IF cmd = "delete"
                   THEN handleDeleteReminder(st, k, u, ev.text, accepted, storeOk)
                   ELSE IF cmd = "update"
                   THEN handleUpdateReminder(st, k, u, ev.text, accepted, storeOk)
                   ELSE say(st, k, u, "unknown", accepted)
       IN IF done.thrown THEN say(done, k, u, "error-occurred", accepted) ELSE done

RECURSIVE handleEvents(_, _, _, _, _)
\* the loop from event k on; an exception that leaves a turn ends the loop.
\* LINE rejects the pushes of the events in rej, the store fails for those
\* in sf.
handleEvents(st, events, k, rej, sf) ==
  IF k > Len(events) \/ st.thrown THEN st
  ELSE handleEvents(handleEvent(st, k, events[k], k \notin rej, k \notin sf),
                    events, k + 1, rej, sf)

\* The signature a request carries: none, the HMAC of the bytes of its body
\* ("raw", what LINE computes), the HMAC of JSON.stringify of the parsed body
\* ("parsed"), or anything else.  canonical: the bytes of the body are what
\* JSON.stringify gives back for them.
Signatures == {"none", "raw", "parsed", "other"}

\* verifySignature lets the request through: the header is there and equals
\* the HMAC of JSON.stringify(req.body)
verifySignature(sig, canonical) ==
  sig = "parsed" \/ (sig = "raw" /\ canonical)

\* POST / of routes/line.js: verifySignature, validateLineEvent, then the
\* loop over the events; 200 after the loop, 500 when an exception left it
callback(sig, canonical, valid, events, rej, sf) ==
  /\ \A q \in Procs : pc[q] = "idle"
  /\ LET st0 == [tbl |-> reminders, nextId |-> nextId, replies |-> <<>>,
                 thrown |-> FALSE]
         fin == handleEvents(st0, events, 1, rej, sf)
         req == [route |-> "callback", method |-> "POST", key |-> sig,
                 canonical |-> canonical, events |-> events]
     IN IF ~verifySignature(sig, canonical)
        THEN /\ lastRequest' = [req EXCEPT !.events = <<>>] @@ [status |-> 401]
             /\ UNCHANGED <<reminders, nextId>>
             /\ replies' = <<>>
        ELSE IF ~valid
        THEN /\ lastRequest' = [req EXCEPT !.events = <<>>] @@ [status |-> 400]
             /\ UNCHANGED <<reminders, nextId>>
             /\ replies' = <<>>
        ELSE /\ fin.nextId <= MaxReminders + 1
             /\ lastRequest' = req @@ [status |-> IF fin.thrown THEN 500 ELSE 200]
             /\ reminders' = fin.tbl
             /\ nextId' = fin.nextId
             /\ replies' = fin.replies
  /\ ForgetAll
  /\ dueRun' = NoRun
  /\ UNCHANGED <<now, BISHOP_LINE_USER_ID, CRON_API_KEY, interviews, pc, hist,
                 API_KEY, AUTHORIZED_USERS>>

\* the clock reaches a later instant; the last request is forgotten
LineTick(t) ==
  /\ t > now
  /\ now' = t
  /\ ForgetAll
  /\ dueRun' = NoRun
  /\ lastRequest' = NoRequest
  /\ replies' = <<>>
  /\ UNCHANGED <<BISHOP_LINE_USER_ID, CRON_API_KEY, interviews, nextId, pc, reminders,
                 hist, API_KEY, AUTHORIZED_USERS, hits>>

\* events of requests with up to two events, from a listed and an unlisted
\* user; the third kind is not a text message
LineEvents ==
  {[type |-> "text", userId |-> "U9", text |-> x] :
     x \in {y \in Texts : y.cmd \in {"list", "delete", "update"}
                           \/ (y.cmd = "add" /\ y.shape = "ok" /\ y.at = 90)}}
  \cup {[type |-> "text", userId |-> "U1", text |-> x] :
          x \in {y \in Texts : y.cmd = "delete"
                                \/ (y.cmd = "add" /\ y.shape = "ok" /\ y.at = 90)}}
  \cup {[type |-> "follow", userId |-> "U9",
         text |-> [cmd |-> "other", shape |-> "ok", id |-> 0, at |-> 0]]}

LineRequests ==
  {<<e>> : e \in LineEvents} \cup {<<e, f>> : e \in LineEvents, f \in LineEvents}

\* a request signed by LINE the loop of which runs
Callback ==
  \E events \in LineRequests, rej \in SUBSET {1, 2}, sf \in SUBSET {1, 2} :
    /\ rej \cup sf \subseteq 1..Len(events)
    /\ callback("raw", TRUE, TRUE, events, rej, sf)
    /\ UNCHANGED hits

\* a request of one event with any signature, body and shape
CallbackAny ==
  \E e \in LineEvents, sig \in Signatures, canonical, valid \in BOOLEAN :
    callback(sig, canonical, valid, <<e>>, {}, {}) /\ UNCHANGED hits

\* the reminders table starts with one reminder of the listed user
InitLine ==
  /\ now = 0
  /\ BISHOP_LINE_USER_ID = "Ubishop"
  /\ CRON_API_KEY = "k"
  /\ interviews = [i \in {} |-> i]
  /\ nextId = 2
  /\ InitObs
  /\ reminders = [i \in {1} |-> [id |-> 1, user_id |-> "U1", reminder_time |-> 30,
                                 status |-> "pending"]]
  /\ dueRun = NoRun
  /\ NoHist
  /\ NoWeb

NextLine ==
  \/ \E t \in RTimes : LineTick(t)
  \/ Callback
  \/ CallbackAny

SpecLine == InitLine /\ [][NextLine]_vars

\* the text events of the last request whose sender is not listed
Unlisted(req) ==
  {k \in 1..Len(req.events) :
     req.events[k].type = "text" /\ ~isAuthorized(req.events[k].userId)}

\* the messages the handling of event k tried to send
RepliesOf(k) == {j \in 1..Len(replies) : replies[j].event = k}

\* C27: for every text event of a webhook request whose sender is not in
\* AUTHORIZED_USERS and which the loop has come to, the handling of the event
\* sends exactly one message, the rejection to that sender, and the text
\* event after it in the request is handled as well.
C27_UnlistedOnlyRejected ==
  lastRequest.route = "callback" /\ lastRequest.status \notin {400, 401} =>
    \A k \in Unlisted(lastRequest) :
      RepliesOf(k) # {} =>
      /\ \E j \in RepliesOf(k) :
           /\ RepliesOf(k) = {j}
           /\ replies[j].text = "not-authorized"
           /\ replies[j].to = lastRequest.events[k].userId
      /\ (k < Len(lastRequest.events) /\ lastRequest.events[k + 1].type = "text"
            => RepliesOf(k + 1) # {})

\* no request of unlisted senders alone changes the reminders table
UnlistedLeaveStore ==
  [][lastRequest'.route = "callback"
       /\ (\A k \in 1..Len(lastRequest'.events) :
             lastRequest'.events[k].type = "text" => k \in Unlisted(lastRequest'))
     => reminders' = reminders /\ nextId' = nextId]_vars

\* the signature of the request is the HMAC of the bytes of its body: the
\* HMAC of the re-serialised body is that value only for a canonical body
matchesBody(req) ==
  req.key = "raw" \/ (req.key = "parsed" /\ req.canonical)

\* C28: a webhook request without a signature, or with one that is not the
\* HMAC of the request body, is answered 401 and none of its events is
\* handled (no message); a request that reaches the handling of its events
\* carries the HMAC of its body.
C28_SignatureGate ==
  lastRequest.route = "callback" =>
    /\ (~matchesBody(lastRequest) =>
          lastRequest.status = 401 /\ replies = <<>> /\ lastRequest.events = <<>>)
    /\ (lastRequest.status # 401 => matchesBody(lastRequest))

\* a request the signature gate refuses changes nothing in the store
RefusedLeavesStore ==
  [][lastRequest'.route = "callback" /\ lastRequest'.status = 401
     => reminders' = reminders /\ nextId' = nextId]_vars

\* the gate as the code computes it: whoever gets past it carries the HMAC of
\* JSON.stringify(req.body)
GateAsCoded ==
  lastRequest.route = "callback" =>
    (lastRequest.status # 401 <=> verifySignature(lastRequest.key, lastRequest.canonical))

\* client.replyMessage inside handleMessage: the reply of a handler, and when
\* LINE rejects it the apology of the catch block, rejected as well
replyMessage(u, text, accepted) ==
  IF accepted THEN <<[event |-> 1, to |-> u, text |-> text, ok |-> TRUE]>>
  ELSE <<[event |-> 1, to |-> u, text |-> text, ok |-> FALSE],
         [event |-> 1, to |-> u, text |-> "handling-error", ok |-> FALSE]>>

\* the values an update command may carry for a word: the well-formed ones
\* and, for a date or a time, one that is neither
UpdateValues(word) ==
  IF word \in {"date", "time"} THEN ValuesOf(word) \cup {-1} ELSE ValuesOf(word)

\* the reply handleUpdateCommand chooses; the store answers with an error
\* when it fails or when the column does not exist, and with no error when
\* no row matches
updateReply(parsedOk, word, value, storeOk) ==
  LET dbField == fieldMap(word)
  IN IF ~parsedOk THEN "format-error"
     ELSE IF dbField = "undefined" THEN "invalid-field"
     ELSE IF dbField = "interview_date" /\ value \notin Dates THEN "date-format-error"
     ELSE IF dbField = "interview_time" /\ value \notin Times THEN "time-format-error"
     ELSE IF ~storeOk \/ dbField \notin DOMAIN newInterview(0, "", 0, 0)
     THEN "update-error"
     ELSE "update-ok"

\* handleUpdateCommand of app.js for one message of user u
handleUpdateCommand(u, parsedOk, id, word, value, storeOk, accepted) ==
  /\ \A q \in Procs : pc[q] = "idle"
  /\ LET text == updateReply(parsedOk, word, value, storeOk)
     IN /\ interviews' = IF text = "update-ok"
                         THEN updated(interviews, u, id, fieldMap(word), value)
                         ELSE interviews
        /\ replies' = replyMessage(u, text, accepted)
  /\ lastRequest' = [route |-> "message", method |-> "update", key |-> u,
                     status |-> 0, id |-> IF parsedOk THEN id ELSE 0]
  /\ ForgetAll
  /\ UNCHANGED <<now, BISHOP_LINE_USER_ID, CRON_API_KEY, nextId, pc, reminders,
                 dueRun, hist, API_KEY, AUTHORIZED_USERS, hits>>

\* handleDeleteCommand of app.js: deleteInterview reports success whenever
\* the store reports no error, whether or not a row matched
handleDeleteCommand(u, parsedOk, id, storeOk, accepted) ==
  /\ \A q \in Procs : pc[q] = "idle"
  /\ LET text == IF ~parsedOk THEN "format-error"
                 ELSE IF storeOk THEN "delete-ok" ELSE "delete-error"
     IN /\ interviews' =
             IF text = "delete-ok"
             THEN [i \in {j \in DOMAIN interviews :
                            ~(j = id /\ interviews[j].user_id = u)} |-> interviews[i]]
             ELSE interviews
        /\ replies' = replyMessage(u, text, accepted)
  /\ lastRequest' = [route |-> "message", method |-> "delete", key |-> u,
                     status |-> 0, id |-> IF parsedOk THEN id ELSE 0]
  /\ ForgetAll
  /\ UNCHANGED <<now, BISHOP_LINE_USER_ID, CRON_API_KEY, nextId, pc, reminders,
                 dueRun, hist, API_KEY, AUTHORIZED_USERS, hits>>

\* one interview, of the sender or of somebody else
InitCmd ==
  /\ now = 0
  /\ BISHOP_LINE_USER_ID = "Ubishop"
  /\ CRON_API_KEY = "k"
  /\ \E o \in {"U1", "U2"} : interviews = (1 :> newInterview(1, o, 1, 60))
  /\ nextId = 2
  /\ InitObs
  /\ reminders = <<>>
  /\ dueRun = NoRun
  /\ NoHist
  /\ NoWeb

NextCmd ==
  \/ \E t \in RTimes : LineTick(t)
  \/ \E u \in Users, p \in BOOLEAN, id \in 1..MaxId, word \in Words, ok, acc \in BOOLEAN :
       \E v \in UpdateValues(word) : handleUpdateCommand(u, p, id, word, v, ok, acc)
  \/ \E u \in Users, p \in BOOLEAN, id \in 1..MaxId, ok, acc \in BOOLEAN :
       handleDeleteCommand(u, p, id, ok, acc)

SpecCmd == InitCmd /\ [][NextCmd]_vars

\* user u owns the interview with this ID
owns(tbl, u, id) == id \in DOMAIN tbl /\ tbl[id].user_id = u

\* C29: a delete or update command of app.js whose ID matches no interview
\* of the sender leaves the interviews table as it was and is answered with
\* an error reply, never with the success confirmation.
C29_NoMatchIsError ==
  [][lastRequest'.route = "message" /\ lastRequest'.method \in {"update", "delete"}
       /\ ~owns(interviews, lastRequest'.key, lastRequest'.id)
     => /\ interviews' = interviews
        /\ replies' # <<>>
        /\ \A j \in 1..Len(replies') :
             replies'[j].text \notin {"update-ok", "delete-ok"}]_vars

\* such a command never changes the table
NoMatchLeavesStore ==
  [][lastRequest'.route = "message" /\ lastRequest'.method \in {"update", "delete"}
       /\ ~owns(interviews, lastRequest'.key, lastRequest'.id)
     => interviews' = interviews]_vars

\* the shapes of an app.js add command: the regex of parseAddCommand does
\* not match, or it matches and the date or the time is none
AddShapes == {"ok", "nomatch", "baddate", "badtime"}

\* handleAddCommand of app.js for one message of user u: the three format
\* replies return before the store is touched
handleAddCommand(u, shape, d, tm, storeOk, ok24, ok3, accepted) ==
  /\ \A q \in Procs : pc[q] = "idle"
  /\ nextId <= MaxId
  /\ LET text == IF shape = "nomatch" THEN "format-error"
                 ELSE IF shape = "baddate" THEN "date-format-error"
                 ELSE IF shape = "badtime" THEN "time-format-error"
                 ELSE IF storeOk THEN "add-ok" ELSE "add-error"
         id == nextId
         row == newInterview(id, u, d, tm)
         diff == diffMinutes(row, now)
         t0 == interviews @@ (id :> row)
         t1 == IF diff < PreMark24 /\ ok24
               THEN markReminderSent(t0, id, "24h", "true") ELSE t0
         t2 == IF diff < PreMark3 /\ ok3
               THEN markReminderSent(t1, id, "3h", "true") ELSE t1
     IN /\ interviews' = IF text = "add-ok" THEN t2 ELSE interviews
        /\ nextId' = IF text = "add-ok" THEN nextId + 1 ELSE nextId
        /\ replies' = replyMessage(u, text, accepted)
  /\ lastRequest' = [route |-> "message", method |-> "add", key |-> u,
                     status |-> 0, id |-> 0, shape |-> shape]
  /\ ForgetAll
  /\ UNCHANGED <<now, BISHOP_LINE_USER_ID, CRON_API_KEY, pc, reminders,
                 dueRun, hist, API_KEY, AUTHORIZED_USERS, hits>>

\* a webhook request with one /add of the listed user
CallbackAdd ==
  \E x \in {y \in Texts : y.cmd = "add"}, rej \in SUBSET {1}, sf \in SUBSET {1} :
    /\ callback("raw", TRUE, TRUE, <<[type |-> "text", userId |-> "U1", text |-> x]>>,
                rej, sf)
    /\ UNCHANGED hits

\* both stores start empty
InitAdd ==
  /\ now = 0
  /\ BISHOP_LINE_USER_ID = "Ubishop"
  /\ CRON_API_KEY = "k"
  /\ interviews = [i \in {} |-> i]
  /\ nextId = 1
  /\ InitObs
  /\ reminders = <<>>
  /\ dueRun = NoRun
  /\ NoHist
  /\ NoWeb

NextAdd ==
  \/ \E t \in RTimes : LineTick(t)
  \/ CallbackAdd
  \/ \E u \in Users, shape \in AddShapes, d \in Dates, tm \in Times,
        storeOk, ok24, ok3, acc \in BOOLEAN :
       handleAddCommand(u, shape, d, tm, storeOk, ok24, ok3, acc)

SpecAdd == InitAdd /\ [][NextAdd]_vars

\* the add of the last request or message failed parsing or validation; for
\* /add a time that is not after the instant of the request fails as well
FailedAdd(req, t) ==
  \/ /\ req.route = "callback"
     /\ req.status \in {200, 500}
     /\ Len(req.events) = 1
     /\ req.events[1].type = "text"
     /\ isAuthorized(req.events[1].userId)
     /\ req.events[1].text.cmd = "add"
     /\ (req.events[1].text.shape # "ok" \/ req.events[1].text.at <= t)
  \/ /\ req.route = "message"
     /\ req.method = "add"
     /\ req.shape # "ok"

FormatErrors == {"invalid-format", "format-error", "date-format-error",
                 "time-format-error"}

WebhookMax == 30
UserMax == 20
BurstMax == 5
lineWebhookLimiter == [name |-> "lineWebhookLimiter", store |-> "line",
                       windowMs |-> 1, max |-> WebhookMax]
userSpecificLimiter == [name |-> "userSpecificLimiter", store |-> "user",
                        windowMs |-> 1, max |-> UserMax]
burstLimiter == [name |-> "burstLimiter", store |-> "burst",
                 windowMs |-> 0, max |-> BurstMax]

\* a limiter that lets one request more through
overLimitLoose(count, max) == count > max + 1

\* rateLimit: the request is refused when the counter of its key, this
\* request counted, is above max
overLimit(count, max) == count > max

\* the counters after limiter lim counted a request of key k
counted(h, lim, k) ==
  IF lim.store = "line" THEN [h EXCEPT !.line[k] = @ + 1]
  ELSE IF lim.store = "user" THEN [h EXCEPT !.user[k] = @ + 1]
  ELSE [h EXCEPT !.burst[k] = @ + 1]

countOf(h, lim, k) ==
  IF lim.store = "line" THEN h.line[k]
  ELSE IF lim.store = "user" THEN h.user[k]
  ELSE h.burst[k]

\* the answer of a limiter that refuses a request
tooMany(lim) ==
  [route |-> "callback", method |-> "POST", key |-> "raw", canonical |-> TRUE,
   events |-> <<>>, status |-> 429, limiter |-> lim.name]

\* the other address sends a few requests in a window
MaxOtherHits == 2

\* POST / of routes/line.js from address ip with one /help of user u: the
\* three limiters in turn, each counting the request it sees, then the rest
\* of the route
post(ip, u) ==
  /\ hits.line[ip] < WebhookMax + 2
  /\ (ip # "ip1" => hits.line[ip] < MaxOtherHits)
  /\ LET h1 == counted(hits, lineWebhookLimiter, ip)
         h2 == counted(h1, userSpecificLimiter, u)
         h3 == counted(h2, burstLimiter, ip)
         help == [cmd |-> "help", shape |-> "ok", id |-> 0, at |-> 0]
         refused(h, lim) == /\ hits' = h
                            /\ lastRequest' = tooMany(lim)
                            /\ replies' = <<>>
                            /\ ForgetAll
                            /\ dueRun' = NoRun
                            /\ UNCHANGED <<now, BISHOP_LINE_USER_ID, CRON_API_KEY,
                                           interviews, nextId, pc, reminders, hist,
                                           API_KEY, AUTHORIZED_USERS>>
     IN IF overLimit(countOf(h1, lineWebhookLimiter, ip), lineWebhookLimiter.max)
        THEN refused(h1, lineWebhookLimiter)
        ELSE IF overLimit(countOf(h2, userSpecificLimiter, u), userSpecificLimiter.max)
        THEN refused(h2, userSpecificLimiter)
        ELSE IF overLimit(countOf(h3, burstLimiter, ip), burstLimiter.max)
        THEN refused(h3, burstLimiter)
        ELSE /\ hits' = h3
             /\ callback("raw", TRUE, TRUE,
                         <<[type |-> "text", userId |-> u, text |-> help]>>, {}, {})

\* ten seconds pass inside the minute: the window of burstLimiter ends
BurstWindowEnds ==
  /\ hits.burst # NoHits.burst
  /\ hits' = [hits EXCEPT !.burst = NoHits.burst]
  /\ UNCHANGED <<now, BISHOP_LINE_USER_ID, CRON_API_KEY, interviews, nextId, pc, obs,
                 reminders, dueRun, hist, API_KEY, AUTHORIZED_USERS, replies,
                 lastRequest>>

\* the clock reaches a later minute: every window has ended
LimitTick(t) ==
  /\ t > now
  /\ now' = t
  /\ hits' = NoHits
  /\ ForgetAll
  /\ dueRun' = NoRun
  /\ lastRequest' = NoRequest
  /\ replies' = <<>>
  /\ UNCHANGED <<BISHOP_LINE_USER_ID, CRON_API_KEY, interviews, nextId, pc, reminders,
                 hist, API_KEY, AUTHORIZED_USERS>>

NextLimit ==
  \/ \E t \in RTimes : LimitTick(t)
  \/ BurstWindowEnds
  \/ \E ip \in IPs, u \in LineUsers : post(ip, u)

SpecLimit == InitLine /\ [][NextLimit]_vars

\* C31: every request to the webhook is counted once for its address; a
\* request passes lineWebhookLimiter only as one of the first 30 of its
\* address in the one-minute window, the 31st and later ones are answered
\* 429 by it with no event handled and the store unchanged, and the counter
\* is zero again when the window has ended.
C31_WebhookLimit ==
  [][/\ \A ip \in IPs :
          hits'.line[ip] # hits.line[ip] /\ now' = now =>
            /\ hits'.line[ip] = hits.line[ip] + 1
            /\ lastRequest'.route = "callback"
            /\ (hits'.line[ip] > WebhookMax =>
                  /\ lastRequest'.status = 429
                  /\ lastRequest'.limiter = "lineWebhookLimiter"
                  /\ replies' = <<>>
                  /\ reminders' = reminders /\ nextId' = nextId)
            /\ (hits'.line[ip] <= WebhookMax =>
                  lastRequest'.status # 429
                  \/ lastRequest'.limiter # "lineWebhookLimiter")
     /\ (lastRequest'.route = "callback" /\ lastRequest' # lastRequest =>
           \E ip \in IPs : hits'.line[ip] = hits.line[ip] + 1)
     /\ (now' # now => hits'.line = [ip \in IPs |-> 0])]_vars

\* the 31st request of an address in a window was refused by the limiter,
\* while the other address is still served
C31_Witness ==
  /\ hits.line["ip1"] = WebhookMax + 1
  /\ hits.line["ip2"] = 1
  /\ lastRequest.route = "callback"
  /\ lastRequest.status = 429
  /\ lastRequest.limiter = "lineWebhookLimiter"
  /\ replies = <<>>

\* ------------------------------------- sendDueReminders invoked repeatedly
\* a run in which the query, every push and every update succeed
GoodSweep ==
  /\ sendDueReminders(TRUE, {}, {})
  /\ pushed' = [i \in DOMAIN pushed |->
                  pushed[i] + Cardinality({k \in 1..Len(dueRun'.log) :
                                 dueRun'.log[k].id = i /\ dueRun'.log[k].push = "ok"})]
  /\ UNCHANGED <<lastSweep, web>>

\* two pending reminders that earlier commands created
RetryTables ==
  {[i \in {1, 2} |-> [id |-> i, user_id |-> "U1", reminder_time |-> t[i],
                      status |-> "pending"]] : t \in [{1, 2} -> RTimes]}

InitRetry ==
  /\ now = 0
  /\ BISHOP_LINE_USER_ID = "Ubishop"
  /\ CRON_API_KEY = "k"
  /\ interviews = [i \in {} |-> i]
  /\ nextId = 1
  /\ InitObs
  /\ reminders \in RetryTables
  /\ dueRun = NoRun
  /\ pushed = [i \in 1..MaxReminders |-> 0]
  /\ lastSweep = 0
  /\ NoWeb

NextRetry ==
  \/ \E t \in RTimes : Tick(t)
  \/ DueSweep
  \/ GoodSweep

\* runs keep being invoked, and LINE and the store succeed in the end: a run
\* without a failure that would change something is taken in the end
SpecRetry == InitRetry /\ [][NextRetry]_vars /\ WF_vars(GoodSweep)

\* reminder i is pending and its reminder_time has passed
DuePending(i) ==
  reminders[i].status = "pending" /\ reminders[i].reminder_time <= now

\* C32: a reminder whose push or whose markReminderAsSent failed in a run of
\* sendDueReminders keeps status pending and is in the result of the next
\* query; and when runs keep being invoked and LINE and the store succeed in
\* the end, every pending reminder whose reminder_time has passed reaches
\* status sent: such a reminder stays as it is or becomes sent in every
\* step, and again and again no such reminder is left.
C32_FailedStaysPendingUntilSent ==
  /\ [][dueRun'.state = "returned" =>
          \A e \in Entries(dueRun'.log) :
            e.push = "rej" \/ e.mark = "fail" =>
              /\ reminders'[e.id].status = "pending"
              /\ \E k \in 1..Len(getDueReminders(reminders', now')) :
                   getDueReminders(reminders', now')[k].id = e.id]_vars
  /\ [][\A i \in DOMAIN reminders :
            DuePending(i) =>
              \/ reminders'[i].status = "sent"
              \/ (reminders'[i].status = "pending"
                    /\ reminders'[i].reminder_time <= now')]_vars
  /\ []<>(\A i \in DOMAIN reminders : ~DuePending(i))

\* a reminder is sent after LINE had accepted its push in two runs: the
\* update of the first run failed and the next run fetched it again
C32_Witness ==
  /\ dueRun.state = "returned"
  /\ \E i \in DOMAIN reminders :
       /\ reminders[i].status = "sent"
       /\ pushed[i] = 2
       /\ \E e \in Entries(dueRun.log) : e.id = i /\ e.push = "ok" /\ e.mark = "ok"

\* ------------------------------------------ api/send-reminders.js, handler
ApiMethods == {"GET", "POST", "OPTIONS"}

\* what the handler imports as logger is the object winston.createLogger
\* returned, which cannot be called: logger(...) throws a TypeError
loggerIsFunction == FALSE

\* handler of api/send-reminders.js: OPTIONS, then the method check, then
\* the try block, which starts with the call of logger and only then runs
\* sendDueReminders; whatever the try block throws is answered 500
sendRemindersHandler(method, fetchOk, rej, mf) ==
  LET answer(status, body) ==
        lastRequest' = [route |-> "api/send-reminders", method |-> method,
                        key |-> "", status |-> status, body |-> body]
      noSweep == /\ \A q \in Procs : pc[q] = "idle"
                 /\ dueRun' = NoRun
                 /\ ForgetAll
                 /\ UNCHANGED <<now, BISHOP_LINE_USER_ID, CRON_API_KEY, interviews,
                                nextId, pc, reminders>>
  IN /\ IF method = "OPTIONS" THEN noSweep /\ answer(200, [success |-> FALSE])
        ELSE IF method # "GET" THEN noSweep /\ answer(405, [success |-> FALSE])
        ELSE IF ~loggerIsFunction THEN noSweep /\ answer(500, [success |-> FALSE])
        ELSE /\ sendDueReminders(fetchOk, rej, mf)
             /\ IF dueRun'.state = "thrown"
                THEN answer(500, [success |-> FALSE])
                ELSE answer(200, [success |-> TRUE,
                                  remindersSent |-> dueRun'.result.remindersSent])
     /\ replies' = <<>>
     /\ UNCHANGED <<hist, API_KEY, AUTHORIZED_USERS, hits>>

\* a request to the function, with what would happen to its sweep
SendRemindersRequest ==
  \E method \in ApiMethods, fetchOk \in BOOLEAN,
     rej \in SUBSET DueIds, mf \in SUBSET DueIds :
    /\ rej \cap mf = {}
    /\ ~fetchOk => (rej = {} /\ mf = {})
    /\ sendRemindersHandler(method, fetchOk, rej, mf)

NextSend ==
  \/ \E t \in RTimes : LineTick(t)
  \/ SendRemindersRequest
  \/ SendDue

SpecSend == InitSweeps /\ [][NextSend]_vars

\* C33: the handler of api/send-reminders.js answers OPTIONS with 200 and
\* any other method but GET with 405, both without a sweep; a GET runs
\* sendDueReminders once and answers 200 with success true and the
\* remindersSent of the sweep when it returns, and 500 only when it throws.
\* (A step that changes lastRequest is a request.)
C33_SendRemindersByMethod ==
  [][lastRequest'.route = "api/send-reminders" /\ lastRequest' # lastRequest =>
       /\ (lastRequest'.method = "OPTIONS" =>
             lastRequest'.status = 200 /\ dueRun'.state = "none"
             /\ reminders' = reminders)
       /\ (lastRequest'.method \notin {"OPTIONS", "GET"} =>
             lastRequest'.status = 405 /\ dueRun'.state = "none"
             /\ reminders' = reminders)
       /\ (lastRequest'.method = "GET" =>
             /\ dueRun'.state \in {"returned", "thrown"}
             /\ (dueRun'.state = "returned" =>
                   /\ lastRequest'.status = 200
                   /\ lastRequest'.body.success
                   /\ lastRequest'.body.remindersSent = dueRun'.result.remindersSent)
             /\ (lastRequest'.status = 500 => dueRun'.state = "thrown"))]_vars

\* the answers to OPTIONS and to the other methods are as documented
OtherMethodsAnswered ==
  [][lastRequest'.route = "api/send-reminders" /\ lastRequest' # lastRequest
       /\ lastRequest'.method # "GET" =>
       /\ lastRequest'.status = IF lastRequest'.method = "OPTIONS" THEN 200 ELSE 405
       /\ dueRun'.state = "none"
       /\ reminders' = reminders]_vars

\* --------------------------------------- the commands of one user (A = U1)
RECURSIVE byDateTime(_, _)
\* the rows of S in the order of getInterviews: by date, then by time
byDateTime(S, tbl) ==
  IF S = {} THEN <<>>
  ELSE LET m == CHOOSE x \in S : \A y \in S :
                  \/ Target(tbl[x]) < Target(tbl[y])
                  \/ (Target(tbl[x]) = Target(tbl[y]) /\ x <= y)
       IN <<tbl[m]>> \o byDateTime(S \ {m}, tbl)

\* a query without the filter on user_id
getInterviewsOfAll(tbl, u) == byDateTime(DOMAIN tbl, tbl)

\* getInterviews: the rows of the user
getInterviews(tbl, u) ==
  byDateTime({i \in DOMAIN tbl : tbl[i].user_id = u}, tbl)

\* handleListCommand of app.js: the list of the sender's interviews, or a
\* fixed text when there is none or the query failed
handleListCommand(u, storeOk, accepted) ==
  /\ \A q \in Procs : pc[q] = "idle"
  /\ LET rows == getInterviews(interviews, u)
         text == IF ~storeOk THEN "list-error"
                 ELSE IF Len(rows) = 0 THEN "list-empty" ELSE "list"
         sent == replyMessage(u, text, accepted)
     IN replies' = IF text = "list"
                   THEN [sent EXCEPT ![1] = @ @@ [rows |-> rows]]
                   ELSE sent
  /\ lastRequest' = [route |-> "message", method |-> "list", key |-> u,
                     status |-> 0, id |-> 0]
  /\ ForgetAll
  /\ UNCHANGED <<now, BISHOP_LINE_USER_ID, CRON_API_KEY, interviews, nextId, pc,
                 reminders, dueRun, hist, API_KEY, AUTHORIZED_USERS, hits>>

\* the texts of A to the webhook: a list, and a delete and an update for
\* each ID
IsoTexts ==
  {[cmd |-> "list", shape |-> "ok", id |-> 0, at |-> 0]}
  \cup {[cmd |-> c, shape |-> "ok", id |-> i, at |-> 90] :
          c \in {"delete", "update"}, i \in 1..MaxReminders}

\* A owns row 1 of both tables; B owns row 2, or nothing
InitIso ==
  /\ now = 0
  /\ BISHOP_LINE_USER_ID = "Ubishop"
  /\ CRON_API_KEY = "k"
  /\ \E d \in Dates :
       interviews \in {(1 :> newInterview(1, "U1", 1, 60)),
                       (1 :> newInterview(1, "U1", 1, 60))
                         @@ (2 :> newInterview(2, "U2", d, 240))}
  /\ nextId = 3
  /\ InitObs
  /\ \E t \in RTimes :
       reminders \in {(1 :> [id |-> 1, user_id |-> "U1", reminder_time |-> 30,
                             status |-> "pending"]),
                      (1 :> [id |-> 1, user_id |-> "U1", reminder_time |-> 30,
                             status |-> "pending"])
                        @@ (2 :> [id |-> 2, user_id |-> "U2", reminder_time |-> t,
                                  status |-> "pending"])}
  /\ dueRun = NoRun
  /\ NoHist
  /\ API_KEY = "k"
  /\ AUTHORIZED_USERS = {"U1", "U2"}
  /\ replies = <<>>
  /\ lastRequest = NoRequest
  /\ hits = NoHits

NextIso ==
  \/ \E t \in RTimes : LineTick(t)
  \/ \E ok, acc \in BOOLEAN : handleListCommand("U1", ok, acc)
  \/ \E p \in BOOLEAN, id \in 1..MaxId, word \in Words, ok, acc \in BOOLEAN :
       \E v \in UpdateValues(word) : handleUpdateCommand("U1", p, id, word, v, ok, acc)
  \/ \E p \in BOOLEAN, id \in 1..MaxId, ok, acc \in BOOLEAN :
       handleDeleteCommand("U1", p, id, ok, acc)
  \/ \E x \in IsoTexts, rej \in SUBSET {1}, sf \in SUBSET {1} :
       /\ callback("raw", TRUE, TRUE,
                   <<[type |-> "text", userId |-> "U1", text |-> x]>>, rej, sf)
       /\ UNCHANGED hits

SpecIso == InitIso /\ [][NextIso]_vars

\* the rows of a table that user u owns
OwnRows(tbl, u) ==
  [i \in {j \in DOMAIN tbl : tbl[j].user_id = u} |-> tbl[i]]

\* C34: no command of user A (list, update, delete, in app.js and in the
\* webhook) changes or deletes a row whose user_id is another user, and
\* every list sent to A is the list of A's own rows: it is what the same
\* command would send if the other users owned nothing.
C34_OtherUsersRowsUntouched ==
  /\ [][/\ \A i \in DOMAIN interviews :
             interviews[i].user_id # "U1" =>
               i \in DOMAIN interviews' /\ interviews'[i] = interviews[i]
        /\ \A i \in DOMAIN reminders :
             reminders[i].user_id # "U1" =>
               i \in DOMAIN reminders' /\ reminders'[i] = reminders[i]]_vars
  /\ [](\A j \in 1..Len(replies) :
          /\ replies[j].to = "U1"
          /\ (replies[j].text = "list" =>
                replies[j].rows = getInterviews(OwnRows(interviews, "U1"), "U1"))
          /\ (replies[j].text = "listed" =>
                replies[j].rows = getReminders(OwnRows(reminders, "U1"), "U1"))
          /\ (replies[j].text \in {"list", "listed"} =>
                \A k \in 1..Len(replies[j].rows) : replies[j].rows[k].user_id = "U1"))

\* A asked for the deletion of B's reminder and was refused, B's rows being
\* where they were
C34_Witness ==
  /\ lastRequest.route = "callback"
  /\ lastRequest.events[1].text.cmd = "delete"
  /\ lastRequest.events[1].text.id = 2
  /\ replies = <<[event |-> 1, to |-> "U1", text |-> "not-found", ok |-> TRUE]>>
  /\ 2 \in DOMAIN reminders /\ reminders[2].user_id = "U2"
  /\ 2 \in DOMAIN interviews /\ interviews[2].user_id = "U2"

\* --------------------------- addInterview, one step per await, and a sweep
\* premarks that mark up to a day ahead
premarksWithinDay(diff) ==
  IF diff < PreMark3 THEN "premark24then3"
  ELSE IF diff < MinutesPerDay THEN "premark24only" ELSE "idle"

\* where addInterview stands after the insert: diffHours < 3 asks for the
\* update of the 24h flag, diffHours < 1 for that of the 3h flag after it
premarks(diff) ==
  IF diff < PreMark3 THEN "premark24then3"
  ELSE IF diff < PreMark24 THEN "premark24only" ELSE "idle"

\* the insert of addInterview returned: the row is in the table with both
\* flags false, diffHours is computed
AddInsert(u, d, tm) ==
  /\ pc[2] = "idle"
  /\ nextId <= MaxId
  /\ LET row == newInterview(nextId, u, d, tm)
     IN /\ interviews' = interviews @@ (nextId :> row)
        /\ pc' = [pc EXCEPT ![2] = premarks(diffMinutes(row, now))]
  /\ nextId' = nextId + 1
  /\ UNCHANGED <<now, BISHOP_LINE_USER_ID, CRON_API_KEY, obs, reminders, dueRun,
                 hist, web>>

\* the next markReminderSent of addInterview, the store accepting the
\* update or not; its result is not read
AddPremark(ok) ==
  /\ pc[2] \in {"premark24then3", "premark24only", "premark3"}
  /\ LET id == nextId - 1
         b == IF pc[2] = "premark3" THEN "3h" ELSE "24h"
     IN interviews' = IF ok /\ id \in DOMAIN interviews
                      THEN markReminderSent(interviews, id, b, "true")
                      ELSE interviews
  /\ pc' = [pc EXCEPT ![2] = IF pc[2] = "premark24then3" THEN "premark3" ELSE "idle"]
  /\ UNCHANGED <<now, BISHOP_LINE_USER_ID, CRON_API_KEY, nextId, obs, reminders,
                 dueRun, hist, web>>

\* the store is empty before the first addInterview
InitAddConc ==
  /\ now = 0
  /\ BISHOP_LINE_USER_ID = "Ubishop"
  /\ CRON_API_KEY = "k"
  /\ interviews = [i \in {} |-> i]
  /\ nextId = 1
  /\ InitObs
  /\ reminders = [i \in {} |-> i]
  /\ dueRun = NoRun
  /\ NoHist
  /\ NoWeb

\* a sweep interleaves with addInterview at every await
NextAddConc ==
  \/ \E t \in Instants : Tick(t)
  \/ Request(1, "k")
  \/ \E ok \in BOOLEAN : Fetch(1, ok)
  \/ \E accepted \in BOOLEAN : Send(1, accepted)
  \/ \E ok \in BOOLEAN : Mark(1, ok)
  \/ \E u \in Users, d \in Dates, tm \in Times : AddInsert(u, d, tm)
  \/ \E ok \in BOOLEAN : AddPremark(ok)

SpecAddConc == InitAddConc /\ [][NextAddConc]_vars

\* the buckets addInterview is about to pre-mark for the row it inserted
AboutToPremark ==
  IF pc[2] = "premark24then3" THEN {<<nextId - 1, "24h">>, <<nextId - 1, "3h">>}
  ELSE IF pc[2] = "premark24only" THEN {<<nextId - 1, "24h">>}
  ELSE IF pc[2] = "premark3" THEN {<<nextId - 1, "3h">>}
  ELSE {}

\* C35: while addInterview stands between its insert and a pre-marking
\* update, the new row being visible to a sweep, the sweep has not selected
\* and does not push the reminder of a bucket that addInterview is about to
\* pre-mark.
C35_NoPushBeforePremark ==
  /\ [](AboutToPremark \cap Worklist([interviews24h |-> interviews24h[1],
                                      interviews3h |-> interviews3h[1]]) = {})
  /\ [][\A k \in (Len(log[1]) + 1)..Len(log'[1]) :
          <<log'[1][k].id, log'[1][k].bucket>> \notin AboutToPremark]_vars

\* addInterview stands before its update of the 24h flag, the sweep fetched
\* the new row with both flags false and pushed its 3h reminder
C35_Witness ==
  /\ pc[2] = "premark24only"
  /\ fetched[1] = "ok"
  /\ \E k \in 1..Len(allInterviews[1].rows) :
       /\ allInterviews[1].rows[k].id = nextId - 1
       /\ ~Truthy(Flag(allInterviews[1].rows[k], "24h"))
       /\ ~Truthy(Flag(allInterviews[1].rows[k], "3h"))
  /\ Len(log[1]) > 0
  /\ log[1][Len(log[1])].id = nextId - 1
  /\ log[1][Len(log[1])].bucket = "3h"

\* ------------------- sendDueReminders, one step per reminder, and /update
\* the query of sendDueReminders returned: the loop works on this list
DueFetch(fetchOk) ==
  /\ dueRun.state # "running"
  /\ \A q \in Procs : pc[q] = "idle"
  /\ LET due == getDueReminders(reminders, now)
     IN dueRun' = IF ~fetchOk THEN [state |-> "thrown", due |-> <<>>, log |-> <<>>]
                  ELSE IF Len(due) = 0
                  THEN [state |-> "returned", due |-> due, log |-> <<>>,
                        result |-> [remindersSent |-> 0, success |-> TRUE]]
                  ELSE [state |-> "running", due |-> due, log |-> <<>>]
  /\ ForgetAll
  /\ UNCHANGED <<now, BISHOP_LINE_USER_ID, CRON_API_KEY, interviews, nextId, pc,
                 reminders, hist, web>>

\* the next iteration of the loop, on the row as it was fetched; the result
\* is returned after the last one
DueIter(accepted, marked) ==
  /\ dueRun.state = "running"
  /\ LET r == dueRun.due[Len(dueRun.log) + 1]
         st0 == [tbl |-> reminders, successCount |-> 0, errorCount |-> 0,
                 errors |-> <<>>, log |-> dueRun.log]
         st1 == dueStep(st0, r, accepted, marked)
         sent == Cardinality({k \in 1..Len(st1.log) : st1.log[k].counted = "sent"})
     IN /\ reminders' = st1.tbl
        /\ dueRun' = IF Len(st1.log) < Len(dueRun.due)
                     THEN [dueRun EXCEPT !.log = st1.log]
                     ELSE [state |-> "returned", due |-> dueRun.due, log |-> st1.log,
                           result |-> [remindersSent |-> sent,
                                       totalProcessed |-> Len(dueRun.due),
                                       errors |-> Len(st1.log) - sent,
                                       success |-> TRUE]]
  /\ UNCHANGED <<now, BISHOP_LINE_USER_ID, CRON_API_KEY, interviews, nextId, pc, obs,
                 hist, web>>

\* a webhook request with one /update of reminder 1, handled between two
\* awaits of the sweep
UpdateDuring(accepted, storeOk) ==
  /\ \A q \in Procs : pc[q] = "idle"
  /\ LET ev == [type |-> "text", userId |-> "U1",
                text |-> [cmd |-> "update", shape |-> "ok", id |-> 1, at |-> 90]]
         st0 == [tbl |-> reminders, nextId |-> nextId, replies |-> <<>>,
                 thrown |-> FALSE]
         fin == handleEvents(st0, <<ev>>, 1, IF accepted THEN {} ELSE {1},
                             IF storeOk THEN {} ELSE {1})
     IN /\ lastRequest' = [route |-> "callback", method |-> "POST", key |-> "raw",
                           canonical |-> TRUE, events |-> <<ev>>,
                           status |-> IF fin.thrown THEN 500 ELSE 200]
        /\ reminders' = fin.tbl
        /\ replies' = fin.replies
  /\ UNCHANGED <<now, BISHOP_LINE_USER_ID, CRON_API_KEY, interviews, nextId, pc, obs,
                 dueRun, hist, API_KEY, AUTHORIZED_USERS, hits>>

\* the clock moves between the runs
ReschedTick(t) ==
  /\ dueRun.state # "running"
  /\ LineTick(t)

InitResched ==
  /\ now = 0
  /\ BISHOP_LINE_USER_ID = "Ubishop"
  /\ CRON_API_KEY = "k"
  /\ interviews = [i \in {} |-> i]
  /\ nextId = 3
  /\ InitObs
  /\ reminders \in RetryTables
  /\ dueRun = NoRun
  /\ NoHist
  /\ NoWeb

NextResched ==
  \/ \E t \in {30, 60, 90} : ReschedTick(t)
  \/ \E fetchOk \in BOOLEAN : DueFetch(fetchOk)
  \/ \E accepted, marked \in BOOLEAN : DueIter(accepted, marked)
  \/ \E accepted, storeOk \in BOOLEAN : UpdateDuring(accepted, storeOk)

SpecResched == InitResched /\ [][NextResched]_vars

\* C36: once /update has moved a pending reminder to a later time, the
\* reminder is neither pushed nor marked sent before that time, also when
\* the update committed while a sweep was in progress.
C36_RescheduledNotSentEarly ==
  [][/\ \A i \in DOMAIN reminders :
          (reminders[i].status = "pending" /\ reminders'[i].status = "sent")
            => reminders[i].reminder_time <= now
     /\ (dueRun.state = "running" /\ Len(dueRun'.log) > Len(dueRun.log))
          => LET e == dueRun'.log[Len(dueRun'.log)]
             IN e.push = "ok" => reminders[e.id].reminder_time <= now]_vars

\* ------------------------------------- /update of a reminder already sent
\* a webhook request with one /update of reminder 1 by its owner
UpdateCall ==
  \E rej \in SUBSET {1}, sf \in SUBSET {1} :
    /\ callback("raw", TRUE, TRUE,
                <<[type |-> "text", userId |-> "U1",
                   text |-> [cmd |-> "update", shape |-> "ok", id |-> 1, at |-> 90]]>>,
                rej, sf)
    /\ UNCHANGED hits

\* reminder 1 is due at 30 and pending or already sent
InitKeep ==
  /\ now = 0
  /\ BISHOP_LINE_USER_ID = "Ubishop"
  /\ CRON_API_KEY = "k"
  /\ interviews = [i \in {} |-> i]
  /\ nextId = 3
  /\ InitObs
  /\ reminders \in {[i \in {1, 2} |->
                       [id |-> i, user_id |-> "U1",
                        reminder_time |-> IF i = 1 THEN 30 ELSE t,
                        status |-> IF i = 1 THEN s ELSE "pending"]] :
                      t \in RTimes, s \in {"pending", "sent"}}
  /\ dueRun = NoRun
  /\ pushed = [i \in 1..MaxReminders |-> 0]
  /\ lastSweep = 0
  /\ NoWeb

NextKeep ==
  \/ \E t \in {30, 60, 90} : LineTick(t)
  \/ UpdateCall
  \/ DueSweep

SpecKeep == InitKeep /\ [][NextKeep]_vars

\* C37: a step that moves the reminder_time of a row leaves the status, the
\* owner and the id of the row and every other row as they were, and a
\* reminder with status sent stays sent and is not pushed again, rescheduled
\* or not.
C37_UpdateKeepsStatus ==
  [][/\ \A i \in DOMAIN reminders :
          (i \in DOMAIN reminders' /\ reminders'[i].reminder_time # reminders[i].reminder_time)
            => /\ reminders'[i] = [reminders[i] EXCEPT
                                     !.reminder_time = reminders'[i].reminder_time]
               /\ \A j \in DOMAIN reminders \ {i} : j \in DOMAIN reminders'
                                                    /\ reminders'[j] = reminders[j]
     /\ \A i \in DOMAIN reminders :
          reminders[i].status = "sent"
            => /\ i \in DOMAIN reminders'
               /\ reminders'[i].status = "sent"
               /\ pushed'[i] = pushed[i]]_vars

\* reminder 1 was sent once, then moved to 90, and the sweep at 90 left it out
C37_Witness ==
  /\ now = 90
  /\ reminders[1].status = "sent"
  /\ reminders[1].reminder_time = 90
  /\ pushed[1] = 1
  /\ dueRun.state = "returned"
  /\ Len(dueRun.due) > 0
  /\ \A k \in 1..Len(dueRun.due) : dueRun.due[k].id # 1

\* ----------------------------------------- one message for every command
\* the messages the last request sent for its event k
MessagesFor(k) == {j \in 1..Len(replies) : replies[j].event = k}

\* C38: when LINE accepts every push, a webhook request that passed the
\* signature check has sent exactly one message for each text event of an
\* authorized user, also when the command handler failed.
C38_OneMessagePerEvent ==
  (/\ lastRequest.route = "callback"
   /\ lastRequest.status \in {200, 500}
   /\ \A j \in 1..Len(replies) : replies[j].ok)
    => \A k \in 1..Len(lastRequest.events) :
         (lastRequest.events[k].type = "text" /\ isAuthorized(lastRequest.events[k].userId))
           => Cardinality(MessagesFor(k)) = 1

\* with a store that answers, every such event got its one message and the
\* loop reached the last event
OneMessageWhenStoreAnswers ==
  (/\ lastRequest.route = "callback"
   /\ lastRequest.status \in {200, 500}
   /\ \A j \in 1..Len(replies) : replies[j].ok /\ replies[j].text # "error-occurred")
    => \A k \in 1..Len(lastRequest.events) :
         (lastRequest.events[k].type = "text" /\ isAuthorized(lastRequest.events[k].userId))
           => Cardinality(MessagesFor(k)) = 1
====
